---------------------------- MODULE Spec2Model ----------------------------
(***************************************************************************)
(* Bunny Hop: the game session (frame loop, player physics, collision      *)
(* resolution, platform registry and generator, fall / respawn flow) and   *)
(* the Poki SDK wrapper it talks to.                                       *)
(*                                                                         *)
(* Numbers.  JavaScript numbers are modelled in fixed point: lengths,      *)
(* velocities and angles are integers counting 1/Unit.len of a world unit  *)
(* (or of a radian); a frame delta is an integer number of ticks of        *)
(* 1/Unit.tick second.  With these units gravity, jump, gap, size and      *)
(* height arithmetic of the game is exact; only sin, cos, atan2 and sqrt   *)
(* are rounded.                                                            *)
(***************************************************************************)
EXTENDS Integers, Sequences, FiniteSets, TLC

Unit == [len |-> 4000, tick |-> 40, rnd |-> 16, stream |-> 1024]

\* ------------------------------------------------------------------------
\* Bounds of the model
\* ------------------------------------------------------------------------
\* Math.random() is a pseudo-random stream with Unit.rnd states; a world is
\* built from one of the first NumSeeds + 1 of them.
NumSeeds == 2
\* The animate callbacks that may be requested and not yet run.
MaxArmed == 2
\* Key-down / key-up events delivered in one run.
MaxKeyEvents == 1
MaxFalls == 2

\* ------------------------------------------------------------------------
\* Program constants (src/config/base.config.ts, src/source/game.ts)
\* ------------------------------------------------------------------------
gravity == 30
moveSpeed == 7
jumpForce == 14
PLATFORMS_AHEAD == 25
PLATFORMS_BEHIND == 10
FALL_Y == -20
CONTINUE_THRESHOLD == 10

\* start: { width: 6, height: 1, depth: 10 }
StartSize == [width |-> 6 * Unit.len, height |-> 1 * Unit.len, depth |-> 10 * Unit.len]
\* mesh.position.set(0, 3, -2), new THREE.Vector3(0, 3, -2)
StartPosition == [x |-> 0, y |-> 3 * Unit.len, z |-> -2 * Unit.len]
\* const halfSize = 0.5
HalfSize == Unit.len \div 2

\* ------------------------------------------------------------------------
\* Arithmetic
\* ------------------------------------------------------------------------
Abs(a) == IF a < 0 THEN -a ELSE a
Sign(a) == IF a < 0 THEN -1 ELSE 1
Min(a, b) == IF a <= b THEN a ELSE b
Max(a, b) == IF a >= b THEN a ELSE b
\* a / b rounded to the nearest integer (b > 0)
RoundDiv(a, b) == Sign(a) * ((2 * Abs(a) + b) \div (2 * b))

\* Math.PI in angle units
PiA == 12566
HalfPiA == 6283
TwoPiA == 25133

\* the angle a brought into (-pi, pi]
WrapAngle(a) ==
  LET m == a % TwoPiA
  IN IF m > PiA THEN m - TwoPiA ELSE m

\* sine of an angle in [0, pi/2], by its Taylor polynomial to x^9
SinQ(x) ==
  LET x2 == (x * x) \div Unit.len
      t3 == ((x * x2) \div Unit.len) \div 6
      t5 == ((t3 * x2) \div Unit.len) \div 20
      t7 == ((t5 * x2) \div Unit.len) \div 42
      t9 == ((t7 * x2) \div Unit.len) \div 72
  IN Min(Unit.len, x - t3 + t5 - t7 + t9)

\* Math.sin, Math.cos: result in 1/Unit.len
Sin(a) ==
  LET w == WrapAngle(a)
      m == Abs(w)
      q == IF m > HalfPiA THEN PiA - m ELSE m
  IN Sign(w) * SinQ(q)
Cos(a) == Sin(a + HalfPiA)

\* Math.sqrt of a non-negative integer, rounded down
RECURSIVE SqrtBits(_, _, _)
SqrtBits(n, r, b) ==
  IF b = 0 THEN r
  ELSE IF (r + b) * (r + b) <= n THEN SqrtBits(n, r + b, b \div 2)
       ELSE SqrtBits(n, r, b \div 2)
Sqrt(n) == SqrtBits(n, 0, 32768)

\* Math.sqrt(dx * dx + dz * dz) of two lengths, in 1/Unit.len; to stay within
\* 32 bits the squares are taken in 1/100 of a unit up to 200 units, and in
\* units beyond
HypotAt(dx, dz, scale) ==
  LET a == RoundDiv(dx, scale)
      b == RoundDiv(dz, scale)
  IN Sqrt(a * a + b * b) * scale

Hypot(dx, dz) ==
  HypotAt(dx, dz, IF Max(Abs(dx), Abs(dz)) < 200 * Unit.len THEN 40 ELSE Unit.len)

\* arctangent of t/Unit.len for 0 <= t <= Unit.len (error below 0.004 rad):
\* atan(t) ~ t * (pi/4 + 0.273 * (1 - t))
AtanQ(t) == (t * (3142 + (1092 * (Unit.len - t)) \div Unit.len)) \div Unit.len

\* Math.atan2(y, x), in angle units; atan2(0, 0) = 0 and atan2(0, -0) = pi
Atan2(y, x) ==
  LET ay == Abs(y)
      ax == Abs(x)
      base == IF ax = 0 /\ ay = 0 THEN 0
              ELSE IF ay <= ax THEN AtanQ((ay * Unit.len) \div ax)
              ELSE HalfPiA - AtanQ((ax * Unit.len) \div ay)
      half == IF x >= 0 THEN base ELSE PiA - base
  IN IF y < 0 THEN -half ELSE half


\* ------------------------------------------------------------------------
\* Math.random(): a pseudo-random stream.  The stream has Unit.stream
\* states and passes through all of them; its value, in 1/Unit.rnd, is the
\* high part of its state.
\* ------------------------------------------------------------------------
RandomValue(s) == s \div (Unit.stream \div Unit.rnd)
RandomAdvance(s) == (421 * s + 267) % Unit.stream

\* ------------------------------------------------------------------------
\* Platform registry and path generator
\* ------------------------------------------------------------------------
\* A world: the registry (platforms, in registry order), the gems, the
\* generator cursor and the random stream.  A platform's mesh identity is
\* <<epoch, index>>: the epoch changes with every world.
CursorAtOrigin ==
  [generatedCount |-> 0, lastGenX |-> 0, lastGenY |-> 0, lastGenZ |-> 0,
   pathAngle |-> 0, turnRate |-> 0, turnChangeTimer |-> 0]

EmptyWorld(epoch, rng) ==
  [platforms |-> << >>, gems |-> << >>, gen |-> CursorAtOrigin, rng |-> rng,
   epoch |-> epoch]

\* Platform of addPlatformWithType / addStartPlatformMesh.  The box is the
\* mesh's box (Box3.setFromObject), always recomputed when the mesh moves, so
\* it is derived from position and size.
MakePlatform(epoch, x, y, z, w, h, d, type, index, movePhase) ==
  [id |-> <<epoch, index>>, x |-> x, y |-> y, z |-> z, w |-> w, h |-> h, d |-> d,
   type |-> type, index |-> index,
   baseX |-> IF type = "moving" THEN x ELSE 0,
   movePhase |-> IF type = "moving" THEN movePhase ELSE 0,
   touched |-> FALSE, fadeTimer |-> (3 * Unit.len) \div 2, dead |-> FALSE]

PlatformBox(p) ==
  [minX |-> p.x - p.w \div 2, maxX |-> p.x + p.w \div 2,
   minY |-> p.y - p.h \div 2, maxY |-> p.y + p.h \div 2,
   minZ |-> p.z - p.d \div 2, maxZ |-> p.z + p.d \div 2]

createStartPlatform(W) ==
  LET startCenterZ == -(StartSize.depth \div 2)
      p == MakePlatform(W.epoch, 0, 0, startCenterZ, StartSize.width,
                        StartSize.height, StartSize.depth, "normal", 0, 0)
  IN [W EXCEPT !.platforms = Append(@, p),
               !.gen.lastGenZ = -StartSize.depth,
               !.gen.lastGenX = 0,
               !.gen.lastGenY = 0]

\* const maxAngle = Math.PI / 3
MaxAngle == PiA \div 3

\* updatePathDirection: the cursor and the stream after it
updatePathDirection(gen, rng) ==
  LET timer == gen.turnChangeTimer - 1
      change == timer <= 0
      r1 == rng
      r2 == RandomAdvance(r1)
      turnRate == IF change THEN (RandomValue(r1) - Unit.rnd \div 2) * 75
                  ELSE gen.turnRate
      timer2 == IF change THEN 5 + (RandomValue(r2) * 10) \div Unit.rnd ELSE timer
      angle == gen.pathAngle + turnRate
  IN [gen |-> [gen EXCEPT !.turnRate = turnRate, !.turnChangeTimer = timer2,
                          !.pathAngle = Max(-MaxAngle, Min(MaxAngle, angle))],
      rng |-> IF change THEN RandomAdvance(r2) ELSE rng]

\* avoidSelfIntersection that steers by pushAngle * 1.5
AvoidPlatformOversteer(acc, p, gap) ==
  LET dx == acc.x - p.x
      dz == acc.z - p.z
      dist == Hypot(dx, dz)
      pushAngle == Atan2(dx, -dz)
      pushStrength == RoundDiv((3 * gap - 2 * dist) * 3, 4)
  IN IF 2 * dist < 3 * gap
     THEN [x |-> acc.x + RoundDiv(Sin(pushAngle) * pushStrength, Unit.len),
           z |-> acc.z - RoundDiv(Cos(pushAngle) * pushStrength, Unit.len),
           pathAngle |-> RoundDiv(3 * pushAngle, 2)]
     ELSE acc

\* avoidSelfIntersection that pulls the candidate toward the close platform
AvoidPlatformPull(acc, p, gap) ==
  LET dx == acc.x - p.x
      dz == acc.z - p.z
      dist == Hypot(dx, dz)
      pushAngle == Atan2(dx, -dz)
      pushStrength == RoundDiv((3 * gap - 2 * dist) * 3, 4)
  IN IF 2 * dist < 3 * gap
     THEN [x |-> acc.x - RoundDiv(Sin(pushAngle) * 2 * pushStrength, Unit.len),
           z |-> acc.z + RoundDiv(Cos(pushAngle) * 2 * pushStrength, Unit.len),
           pathAngle |-> RoundDiv(pushAngle, 2)]
     ELSE acc

\* One iteration of avoidSelfIntersection's loop, for platform p: the
\* candidate acc = [x, z, pathAngle] after it.
AvoidPlatform(acc, p, gap) ==
  LET dx == acc.x - p.x
      dz == acc.z - p.z
      dist == Hypot(dx, dz)
      pushAngle == Atan2(dx, -dz)
      pushStrength == RoundDiv((3 * gap - 2 * dist) * 3, 4)
  IN IF 2 * dist < 3 * gap              \* dist < minDistance = gap * 1.5
     THEN [x |-> acc.x + RoundDiv(Sin(pushAngle) * pushStrength, Unit.len),
           z |-> acc.z - RoundDiv(Cos(pushAngle) * pushStrength, Unit.len),
           pathAngle |-> RoundDiv(pushAngle, 2)]
     ELSE acc

\* avoidSelfIntersection: one pass over the last (at most 30) platforms, from
\* the newest (i = Len) back to i = stop.  (The test on acc makes TLC compute
\* each iteration's candidate before it enters the next.)
RECURSIVE AvoidLoop(_, _, _, _, _)
AvoidLoop(platforms, i, stop, gap, acc) ==
  IF i < stop \/ i < 1 \/ acc.x # acc.x THEN acc
  ELSE AvoidLoop(platforms, i - 1, stop, gap, AvoidPlatform(acc, platforms[i], gap))

avoidSelfIntersection(platforms, x, z, gap, pathAngle) ==
  LET checkCount == Min(30, Len(platforms))
  IN AvoidLoop(platforms, Len(platforms), Len(platforms) - checkCount + 1, gap,
               [x |-> x, z |-> z, pathAngle |-> pathAngle])

\* getPlatformType without the early return for n < 40
getPlatformTypeFromStart(n, roll) ==
  IF n < 80 THEN (IF roll * 10 < 2 * Unit.rnd THEN "moving" ELSE "normal")
  ELSE IF roll * 100 < 15 * Unit.rnd THEN "moving"
  ELSE IF roll * 10 < 3 * Unit.rnd THEN "fading"
  ELSE "normal"

getPlatformType(n, roll) ==
  IF n < 40 THEN "normal"
  ELSE IF n < 80 THEN (IF roll * 10 < 2 * Unit.rnd THEN "moving" ELSE "normal")
  ELSE IF roll * 100 < 15 * Unit.rnd THEN "moving"
  ELSE IF roll * 10 < 3 * Unit.rnd THEN "fading"
  ELSE "normal"

\* addGemToPlatform: gem.position.set(pos.x, pos.y + 2, pos.z)
addGemToPlatform(gems, p) ==
  Append(gems, [x |-> p.x, y |-> p.y + 2 * Unit.len, z |-> p.z])

\* generateNextPlatform: the world after one more platform.  The Math.random()
\* calls are drawn from the stream in the order the code makes them.
generateNextPlatform(W) ==
  LET n == W.gen.generatedCount + 1
      diffN == Min(n, 200)                 \* difficulty = diffN / 200
      isTutorial == n <= 5
      \* gap
      s0 == W.rng
      gap == IF isTutorial THEN 4 * Unit.len
             ELSE (7 * Unit.len) \div 2 + 20 * diffN + RandomValue(s0) * 625
      s1 == IF isTutorial THEN s0 ELSE RandomAdvance(s0)
      \* direction
      dir == IF isTutorial THEN [gen |-> W.gen, rng |-> s1]
             ELSE updatePathDirection(W.gen, s1)
      s2 == dir.rng
      nextX == W.gen.lastGenX + RoundDiv(Sin(dir.gen.pathAngle) * gap, Unit.len)
      nextZ == W.gen.lastGenZ - RoundDiv(Cos(dir.gen.pathAngle) * gap, Unit.len)
      adj == IF isTutorial
             THEN [x |-> nextX, z |-> nextZ, pathAngle |-> dir.gen.pathAngle]
             ELSE avoidSelfIntersection(W.platforms, nextX, nextZ, gap,
                                        dir.gen.pathAngle)
      \* height
      rise == ~isTutorial /\ RandomValue(s2) * 10 > 3 * Unit.rnd
      s3 == IF isTutorial THEN s2 ELSE RandomAdvance(s2)
      lastGenY == Max(0, W.gen.lastGenY
                         + (IF rise THEN Unit.len \div 5 + RandomValue(s3) * 75
                                         + 4 * diffN
                            ELSE 0))
      s4 == IF rise THEN RandomAdvance(s3) ELSE s3
      \* size
      size == IF isTutorial THEN (7 * Unit.len) \div 2
              ELSE (16 * Unit.len) \div 5 - 20 * diffN + RandomValue(s4) * 125
      s5 == IF isTutorial THEN s4 ELSE RandomAdvance(s4)
      \* type
      type == getPlatformType(n, RandomValue(s5))
      s6 == IF n < 40 THEN s5 ELSE RandomAdvance(s5)
      movePhase == (RandomValue(s6) * TwoPiA) \div Unit.rnd
      s7 == IF type = "moving" THEN RandomAdvance(s6) ELSE s6
      p == MakePlatform(W.epoch, adj.x, lastGenY, adj.z, size, Unit.len \div 2,
                        size, type, n, movePhase)
  IN [W EXCEPT
        !.platforms = Append(@, p),
        !.gems = IF n % 5 = 0 THEN addGemToPlatform(@, p) ELSE @,
        !.gen = [dir.gen EXCEPT !.generatedCount = n, !.lastGenX = adj.x,
                                !.lastGenY = lastGenY, !.lastGenZ = adj.z,
                                !.pathAngle = adj.pathAngle],
        !.rng = s7]

\* for (let i = 0; i < this.PLATFORMS_AHEAD; i++) this.generateNextPlatform()
RECURSIVE GenerateUpTo(_, _)
GenerateUpTo(W, count) ==
  IF W.gen.generatedCount >= count THEN W
  ELSE GenerateUpTo(generateNextPlatform(W), count)

generateInitialPlatforms(W) ==
  GenerateUpTo(W, W.gen.generatedCount + PLATFORMS_AHEAD)

\* The world of the constructor, and of resetWorld's "Recreate world"
NewWorld(epoch, rng) ==
  generateInitialPlatforms(createStartPlatform(EmptyWorld(epoch, rng)))


\* ------------------------------------------------------------------------
\* Collision resolver
\* ------------------------------------------------------------------------
\* updatePlayerBox: the player's box around its position
PlayerBox(pos) ==
  [minX |-> pos.x - HalfSize, maxX |-> pos.x + HalfSize,
   minY |-> pos.y - HalfSize, maxY |-> pos.y + HalfSize,
   minZ |-> pos.z - HalfSize, maxZ |-> pos.z + HalfSize]

\* THREE.Box3.intersectsBox: boxes that only touch intersect
intersectsBox(a, b) ==
  ~(b.maxX < a.minX \/ b.minX > a.maxX \/
    b.maxY < a.minY \/ b.minY > a.maxY \/
    b.maxZ < a.minZ \/ b.minZ > a.maxZ)

overlapX(pb, b) == Min(pb.maxX - b.minX, b.maxX - pb.minX)
overlapY(pb, b) == Min(pb.maxY - b.minY, b.maxY - pb.minY)
overlapZ(pb, b) == Min(pb.maxZ - b.minZ, b.maxZ - pb.minZ)

\* The body the resolver works on: B = [pos, vel, isGrounded, isJumping].
\* Push on X: to the side of the platform's centre the player is on.
PushX(B, b) ==
  [B EXCEPT !.pos.x = IF B.pos.x > b.minX + (b.maxX - b.minX) \div 2
                      THEN b.maxX + HalfSize ELSE b.minX - HalfSize,
            !.vel.x = 0]
PushZ(B, b) ==
  [B EXCEPT !.pos.z = IF B.pos.z > b.minZ + (b.maxZ - b.minZ) \div 2
                      THEN b.maxZ + HalfSize ELSE b.minZ - HalfSize,
            !.vel.z = 0]

resolveHorizontalCollision(B, b, ovX, ovZ) ==
  IF ovX <= ovZ THEN PushX(B, b) ELSE PushZ(B, b)

\* The vertical branch of resolveCollision (Y overlap smallest or tied)
resolveVertical(B, b, ovX, ovZ) ==
  IF B.vel.y < 0
  THEN IF B.pos.y >= b.maxY                 \* playerCenterY >= platformTopY
       THEN [B EXCEPT !.pos.y = b.maxY + HalfSize, !.vel.y = 0,
                      !.isGrounded = TRUE, !.isJumping = FALSE]
       ELSE resolveHorizontalCollision(B, b, ovX, ovZ)
  ELSE IF B.vel.y > 0
  THEN [B EXCEPT !.pos.y = b.minY - HalfSize, !.vel.y = 0]
  ELSE B

resolveCollision(B, b) ==
  LET pb == PlayerBox(B.pos)
      ovX == overlapX(pb, b)
      ovY == overlapY(pb, b)
      ovZ == overlapZ(pb, b)
  IN IF ovY <= ovX /\ ovY <= ovZ THEN resolveVertical(B, b, ovX, ovZ)
     ELSE IF ovX <= ovZ THEN PushX(B, b)
     ELSE PushZ(B, b)

\* The axis resolveCollision works on for this body and box
resolvedAxis(B, b) ==
  LET pb == PlayerBox(B.pos)
      ovX == overlapX(pb, b)
      ovY == overlapY(pb, b)
      ovZ == overlapZ(pb, b)
      horizontal == IF ovX <= ovZ THEN "x" ELSE "z"
  IN IF ovY <= ovX /\ ovY <= ovZ
     THEN (IF B.vel.y < 0 /\ B.pos.y < b.maxY THEN horizontal ELSE "y")
     ELSE horizontal

\* The collision loop without "if (platform.dead) continue"
RECURSIVE CollisionLoopWithDead(_, _, _)
CollisionLoopWithDead(platforms, i, L) ==
  IF i > Len(platforms) \/ L.body.pos # L.body.pos THEN L
  ELSE CollisionLoopWithDead(platforms, i + 1,
         IF intersectsBox(PlayerBox(L.body.pos), PlatformBox(platforms[i]))
         THEN [body |-> resolveCollision(L.body, PlatformBox(platforms[i])),
               hit |-> L.hit \cup {i}]
         ELSE L)

\* The collision loop of update: for (const platform of this.platforms) ...
\* L = [body, hit]: the body so far and the registry positions of the
\* platforms the player box intersected.  (The test on L.body makes TLC
\* compute each iteration before it enters the next.)
RECURSIVE CollisionLoop(_, _, _)
CollisionLoop(platforms, i, L) ==
  IF i > Len(platforms) \/ L.body.pos # L.body.pos THEN L
  ELSE LET p == platforms[i]
           b == PlatformBox(p)
           touches == ~p.dead /\ intersectsBox(PlayerBox(L.body.pos), b)
       IN CollisionLoop(platforms, i + 1,
            IF touches
            THEN [body |-> resolveCollision(L.body, b), hit |-> L.hit \cup {i}]
            ELSE L)


\* ------------------------------------------------------------------------
\* The Game object
\* ------------------------------------------------------------------------
Zero3 == [x |-> 0, y |-> 0, z |-> 0]
KeyNames == {"forward", "backward", "left", "right", "jump"}
NoKeys == [k \in KeyNames |-> FALSE]
PressedKeys == {"forward", "left", "jump"}

\* The fields of a Game right after its constructor
NewGame(seed, savedHighScore) ==
  [position |-> StartPosition, velocity |-> Zero3, playerAngle |-> 0,
   isGrounded |-> FALSE, isJumping |-> FALSE, hasStartedMoving |-> FALSE,
   keys |-> NoKeys, world |-> NewWorld(0, seed),
   platformsReached |-> 0, touchedPlatforms |-> {}, gemsCollected |-> 0,
   highScore |-> savedHighScore,
   isPlaying |-> FALSE, isInputEnabled |-> FALSE, introMode |-> TRUE,
   isFalling |-> FALSE]

\* delta in seconds is k / Unit.tick; these are the per-frame steps
TurnStep(k) == (3 * Unit.len * k) \div (2 * Unit.tick)        \* turnSpeed * delta
GravityStep(k) == (gravity * Unit.len * k) \div Unit.tick     \* gravity * delta
Displace(v, k) == RoundDiv(v * k, Unit.tick)                  \* velocity * delta
PhaseStep(k) == (2 * Unit.len * k) \div Unit.tick             \* delta * 2
FadeStep(k) == (Unit.len * k) \div Unit.tick                  \* delta

AnyKey(keys) == \E k \in KeyNames : keys[k]

\* update, "Jump": the impulse is given when the key is down on the ground
jumpImpulse(G) == G.keys["jump"] /\ G.isGrounded

\* update, "Gravity" and "Jump": velocity.y before the jump cut
risingVelocity(G, k) ==
  IF jumpImpulse(G) THEN jumpForce * Unit.len
  ELSE IF G.isGrounded THEN G.velocity.y ELSE G.velocity.y - GravityStep(k)

\* a jump cut that does not look at isJumping
cutsJumpAnyRise(jumpKey, jumping, vy) == ~jumpKey /\ vy > 0

\* update, "Variable jump height": the test of the jump cut
cutsJump(jumpKey, jumping, vy) == ~jumpKey /\ jumping /\ vy > 0

\* update, lines "Check if player started moving" to "Apply velocity"
movePlayer(G, k) ==
  LET started == G.hasStartedMoving \/ AnyKey(G.keys)
      angle == WrapAngle(G.playerAngle
                         + (IF G.keys["left"] THEN TurnStep(k) ELSE 0)
                         - (IF G.keys["right"] THEN TurnStep(k) ELSE 0))
      vx == IF started THEN -Sin(angle) * moveSpeed ELSE 0
      vz == IF started THEN -Cos(angle) * moveSpeed ELSE 0
      jump == jumpImpulse(G)
      vy2 == risingVelocity(G, k)
      jumping == G.isJumping \/ jump
      cut == cutsJump(G.keys["jump"], jumping, vy2)
      vy3 == IF cut THEN (vy2 * 2) \div 5 ELSE vy2
  IN [G EXCEPT !.hasStartedMoving = started,
               !.playerAngle = angle,
               !.velocity = [x |-> vx, y |-> vy3, z |-> vz],
               !.isGrounded = G.isGrounded /\ ~jump,
               !.isJumping = jumping /\ ~cut,
               !.position = [x |-> G.position.x + Displace(vx, k),
                             y |-> G.position.y + Displace(vy3, k),
                             z |-> G.position.z + Displace(vz, k)]]

\* updatePlatformGeneration
\* The body of its while loop: generate, then test the new furthest platform
RECURSIVE GenerateAhead(_, _)
AheadOf(Wn, playerZ) ==
  LET newFurthest == Wn.platforms[Len(Wn.platforms)].z
  IN IF playerZ - newFurthest >= PLATFORMS_AHEAD * 5 * Unit.len THEN Wn
     ELSE GenerateAhead(Wn, playerZ)
GenerateAhead(W, playerZ) == AheadOf(generateNextPlatform(W), playerZ)

RECURSIVE FurthestZ(_, _, _)
FurthestZ(platforms, i, z) ==
  IF i > Len(platforms) \/ z > 0 THEN z
  ELSE FurthestZ(platforms, i + 1, Min(z, platforms[i].z))

\* updatePlatformGeneration that waits until the lookahead is under 100
updatePlatformGenerationLate(W, playerZ) ==
  IF playerZ - FurthestZ(W.platforms, 1, 0) < PLATFORMS_AHEAD * 4 * Unit.len
  THEN GenerateAhead(W, playerZ) ELSE W

updatePlatformGeneration(W, playerZ) ==
  IF playerZ - FurthestZ(W.platforms, 1, 0) < PLATFORMS_AHEAD * 5 * Unit.len
  THEN GenerateAhead(W, playerZ) ELSE W

\* updateDynamicPlatforms that counts down without looking at touched
updateDynamicPlatformUntouched(p, k) ==
  LET phase == WrapAngle(p.movePhase + PhaseStep(k))
      m == IF p.type = "moving"
           THEN [p EXCEPT !.movePhase = phase, !.x = p.baseX + Sin(phase) * 3]
           ELSE p
      fades == m.type = "fading" /\ ~m.dead
      timer == m.fadeTimer - FadeStep(k)
  IN IF fades THEN [m EXCEPT !.fadeTimer = timer, !.dead = timer <= 0] ELSE m

\* updateDynamicPlatforms, for one platform
updateDynamicPlatform(p, k) ==
  LET phase == WrapAngle(p.movePhase + PhaseStep(k))
      m == IF p.type = "moving"
           THEN [p EXCEPT !.movePhase = phase, !.x = p.baseX + Sin(phase) * 3]
           ELSE p
      fades == m.type = "fading" /\ m.touched /\ ~m.dead
      timer == m.fadeTimer - FadeStep(k)
  IN IF fades THEN [m EXCEPT !.fadeTimer = timer, !.dead = timer <= 0] ELSE m

updateDynamicPlatforms(platforms, k) ==
  [i \in 1..Len(platforms) |-> updateDynamicPlatform(platforms[i], k)]

\* cleanupOldPlatforms whose loop runs down to i = 0
KeepIndexesToZero(platforms, threshold) ==
  {i \in 1..Len(platforms) : platforms[i].z <= threshold}

\* cleanupOldPlatforms: registry position 1 (the array's index 0) is kept
KeepIndexes(platforms, threshold) ==
  {i \in 1..Len(platforms) : i = 1 \/ platforms[i].z <= threshold}

RECURSIVE Pick(_, _, _, _)
Pick(seq, keep, i, acc) ==
  IF i > Len(seq) \/ Len(acc) > Len(seq) THEN acc
  ELSE Pick(seq, keep, i + 1, IF i \in keep THEN Append(acc, seq[i]) ELSE acc)

cleanupOldPlatforms(W, playerZ) ==
  LET removeThreshold == playerZ + PLATFORMS_BEHIND * 6 * Unit.len
  IN [W EXCEPT !.platforms = Pick(@, KeepIndexes(@, removeThreshold), 1, << >>),
               !.gems = Pick(@, {i \in 1..Len(@) : @[i].z <= removeThreshold}, 1, << >>)]


\* update that counts a platform on every frame the player box intersects it
applyCollisionsCountEach(G, L) ==
  [G EXCEPT !.position = L.body.pos, !.velocity = L.body.vel,
            !.isGrounded = L.body.isGrounded, !.isJumping = L.body.isJumping,
            !.world.platforms = [i \in 1..Len(@) |->
                                   IF i \in L.hit /\ @[i].type = "fading"
                                   THEN [@[i] EXCEPT !.touched = TRUE] ELSE @[i]],
            !.touchedPlatforms = @ \cup {G.world.platforms[i].id : i \in L.hit},
            !.platformsReached = @ + Cardinality(L.hit)]

\* update, "Collision detection": the loop's effect L on the Game
applyCollisions(G, L) ==
  LET platforms == [i \in 1..Len(G.world.platforms) |->
                      LET p == G.world.platforms[i]
                      IN IF i \in L.hit /\ p.type = "fading"
                         THEN [p EXCEPT !.touched = TRUE] ELSE p]
      touched == G.touchedPlatforms \cup {G.world.platforms[i].id : i \in L.hit}
  IN [G EXCEPT !.position = L.body.pos, !.velocity = L.body.vel,
               !.isGrounded = L.body.isGrounded, !.isJumping = L.body.isJumping,
               !.world.platforms = platforms,
               !.touchedPlatforms = touched,
               !.platformsReached = IF touched # G.touchedPlatforms
                                    THEN Cardinality(touched) ELSE @]

\* update whose collision step leaves isGrounded as it was
collidePlayerSticky(G) ==
  applyCollisions(G, CollisionLoop(G.world.platforms, 1,
    [body |-> [pos |-> G.position, vel |-> G.velocity,
               isGrounded |-> G.isGrounded, isJumping |-> G.isJumping],
     hit |-> {}]))

\* update, "Collision detection": isGrounded = false, then the loop
collidePlayer(G) ==
  applyCollisions(G, CollisionLoop(G.world.platforms, 1,
    [body |-> [pos |-> G.position, vel |-> G.velocity,
               isGrounded |-> FALSE, isJumping |-> G.isJumping],
     hit |-> {}]))

\* update, "Gem collection": distanceTo(gem.position) < 1.5, the gem floating
\* bob above its base height
GemReach == (3 * Unit.len) \div 2
GemBobs == {0, Unit.len \div 2}

gemInReach(pos, gem, bob) ==
  LET dx == Abs(pos.x - gem.x)
      dy == Abs(pos.y - (gem.y + bob))
      dz == Abs(pos.z - gem.z)
      a == dx \div 40
      b == dy \div 40
      c == dz \div 40
  IN dx < GemReach /\ dy < GemReach /\ dz < GemReach
     /\ a * a + b * b + c * c < (GemReach \div 40) * (GemReach \div 40)

collectGems(G, bob) ==
  LET keep == {i \in 1..Len(G.world.gems) : ~gemInReach(G.position, G.world.gems[i], bob)}
  IN [G EXCEPT !.world.gems = Pick(@, keep, 1, << >>),
               !.gemsCollected = @ + Len(G.world.gems) - Cardinality(keep)]

\* update, "Fall reset": the test that starts handleFall
fallDetected(G) == G.position.y < FALL_Y * Unit.len /\ ~G.isFalling

\* stop
stop(G) == [G EXCEPT !.isPlaying = FALSE]

\* update that forgets to set isFalling
fallResetNoFlag(G) == IF fallDetected(G) THEN stop(G) ELSE G

\* update up to the fall test; the frame that detects a fall sets isFalling
\* and runs handleFall up to its first await, which stops the loop
fallReset(G) == IF fallDetected(G) THEN stop([G EXCEPT !.isFalling = TRUE]) ELSE G

\* update, "Platform generation and cleanup"
dynamicWorld(W, k) == [W EXCEPT !.platforms = updateDynamicPlatforms(@, k)]
updateWorld(W, playerZ, k) ==
  cleanupOldPlatforms(dynamicWorld(updatePlatformGeneration(W, playerZ), k), playerZ)
withWorld(G, W) == [G EXCEPT !.world = W]

\* update after the player has moved
updateMoved(M, k, bob) ==
  fallReset(collectGems(collidePlayer(
    withWorld(M, updateWorld(M.world, M.position.z, k))), bob))

update(G, k, bob) ==
  IF G.introMode \/ ~G.isInputEnabled THEN G
  ELSE updateMoved(movePlayer(G, k), k, bob)

\* findNearestPlatform: the first platform of the registry at the least
\* horizontal distance; the spawn point is one unit above its top
RECURSIVE NearestLoop(_, _, _, _)
NearestLoop(platforms, pos, i, best) ==
  IF i > Len(platforms) \/ best.at < 0 THEN best
  ELSE LET d == Hypot(platforms[i].x - pos.x, platforms[i].z - pos.z)
       IN NearestLoop(platforms, pos, i + 1,
                      IF best.at = 0 \/ d < best.distance
                      THEN [at |-> i, distance |-> d] ELSE best)

nearestIndex(platforms, pos) == NearestLoop(platforms, pos, 1, [at |-> 0, distance |-> 0]).at

findNearestPlatform(platforms, pos) ==
  LET p == platforms[nearestIndex(platforms, pos)]
  IN [x |-> p.x, y |-> PlatformBox(p).maxY + Unit.len, z |-> p.z]

\* resetWorld that leaves the generator where it was
resetWorldKeepsCursor(G) ==
  [G EXCEPT !.world = generateInitialPlatforms(createStartPlatform(
                        [@ EXCEPT !.platforms = << >>, !.gems = << >>, !.epoch = 1 - @])),
            !.platformsReached = 0, !.touchedPlatforms = {}, !.gemsCollected = 0]

\* resetWorld: a new registry (new meshes: a new epoch of identities)
resetWorld(G) ==
  [G EXCEPT !.world = NewWorld(1 - G.world.epoch, G.world.rng),
            !.platformsReached = 0, !.touchedPlatforms = {}, !.gemsCollected = 0]

resetPlayer(G, position) ==
  [G EXCEPT !.position = position, !.velocity = Zero3, !.playerAngle = 0,
            !.hasStartedMoving = FALSE]

saveHighScore(G, score) == IF score > G.highScore THEN [G EXCEPT !.highScore = score] ELSE G

\* start, without the frame request it makes
start(G) == [G EXCEPT !.isPlaying = TRUE]

enableInput(G) == [G EXCEPT !.isInputEnabled = TRUE, !.introMode = FALSE]

\* handleFall whose continue branch forgets start
continueRunStopped(G, nearestPlatform) ==
  [resetPlayer(G, nearestPlatform) EXCEPT !.isFalling = FALSE]

\* handleFall, "Respawn at nearest platform"
continueRun(G, nearestPlatform) ==
  start([resetPlayer(G, nearestPlatform) EXCEPT !.isFalling = FALSE])

\* handleFall, "Full restart - recreate world"
fullRestart(G) ==
  start([resetPlayer(resetWorld(G), StartPosition) EXCEPT !.isFalling = FALSE])

\* handleFall that offers the continue whatever the progress
offersContinueAlways(reached) == reached >= 0

\* handleFall: is the continue prompt shown
offersContinue(reached) == reached >= CONTINUE_THRESHOLD


\* ------------------------------------------------------------------------
\* The running program
\* ------------------------------------------------------------------------
VARIABLES
  game,             \* the fields of the Game object
  pokiAvailable,    \* poki.isAvailable
  animateRequests,  \* animate callbacks requested and not yet run
  fallFlows,        \* the handleFall invocations waiting at an await
  frameTicks,       \* what clock.getDelta() returns, in ticks
  keyEvents,        \* keyboard events delivered so far
  lastFlow,         \* how the last finished handleFall went
  falls,            \* times the player has dropped below the fall height
  respawns,         \* times a handleFall has put the player back
  probe             \* argument and result of a function applied on its own

vars == <<game, pokiAvailable, animateRequests, fallFlows, frameTicks, keyEvents,
          lastFlow, falls, respawns, probe>>

\* Math.min(this.clock.getDelta(), 0.1)
MaxDeltaTicks == Unit.tick \div 10
clampDelta(raw) == Min(raw, MaxDeltaTicks)

Seeds == 0..(NumSeeds - 1)
Progress == {0, 4, 10, 12}
FrameTicks == {2, 4}

NoFlow == [branch |-> "none", prompted |-> FALSE, watchAd |-> FALSE,
           adRequested |-> FALSE, adOutcome |-> "none"]
NoProbe == [kind |-> "none"]

\* A game in progress: the player has hopped over the first n platforms of a
\* new world and runs on the last of them
RunningOn(fresh, n, P) ==
  [fresh EXCEPT
     !.position = [x |-> P.x, y |-> PlatformBox(P).maxY + HalfSize, z |-> P.z],
     !.velocity = [x |-> 0, y |-> 0, z |-> -moveSpeed * Unit.len],
     !.isGrounded = TRUE, !.hasStartedMoving = TRUE,
     !.world = cleanupOldPlatforms(
                 [updatePlatformGeneration(fresh.world, P.z) EXCEPT
                    !.gems = Pick(@, {i \in 1..Len(@) : @[i].z < P.z}, 1, << >>)], P.z),
     !.platformsReached = n,
     !.touchedPlatforms = {fresh.world.platforms[i].id : i \in 1..n},
     !.gemsCollected = (n - 1) \div 5,
     !.isPlaying = TRUE, !.isInputEnabled = TRUE, !.introMode = FALSE]

Started(fresh, n) ==
  IF n = 0 THEN start(fresh) ELSE RunningOn(fresh, n, fresh.world.platforms[n])

GameAt(seed, n) == Started(NewGame(seed, 0), n)

Init ==
  /\ game \in {GameAt(seed, n) : seed \in Seeds, n \in Progress}
  /\ pokiAvailable \in BOOLEAN
  /\ animateRequests = 1
  /\ fallFlows = << >>
  /\ frameTicks \in FrameTicks
  /\ keyEvents = 0
  /\ lastFlow = NoFlow
  /\ falls = 0
  /\ respawns = 0
  /\ probe = NoProbe

\* animate, when the loop was stopped: the callback returns
AnimateStopped ==
  /\ animateRequests > 0
  /\ ~game.isPlaying
  /\ animateRequests' = animateRequests - 1
  /\ UNCHANGED <<game, pokiAvailable, fallFlows, frameTicks, keyEvents, lastFlow, falls, respawns, probe>>

NewFlow == [pc |-> "timer", nearestPlatform |-> Zero3]

\* animate with the loop running: the next frame is requested, then update
\* runs with the clamped delta.  A frame in which update has stopped the loop
\* has called handleFall, which now waits for its timer.
FrameOf(raw) ==
  /\ animateRequests > 0
  /\ game.isPlaying
  /\ \E bob \in GemBobs : game' = update(game, clampDelta(raw), bob)
  /\ fallFlows' = IF game'.isPlaying THEN fallFlows ELSE Append(fallFlows, NewFlow)
  /\ IF game'.position.y < FALL_Y * Unit.len /\ game.position.y >= FALL_Y * Unit.len
     THEN falls < MaxFalls /\ falls' = falls + 1
     ELSE falls' = falls
  /\ UNCHANGED <<pokiAvailable, animateRequests, keyEvents, lastFlow, respawns>>

Frame(raw) == FrameOf(raw) /\ UNCHANGED probe

AnimateFrame == Frame(frameTicks) /\ UNCHANGED frameTicks

\* main.ts startGame: the start button
StartButton ==
  /\ game.introMode
  /\ game' = enableInput(game)
  /\ UNCHANGED <<pokiAvailable, animateRequests, fallFlows, frameTicks, keyEvents, lastFlow, falls, respawns, probe>>

\* setupControls: keydown and keyup, delivered while the player waits on the
\* start platform for the first input of the session
KeyEvent ==
  /\ keyEvents < MaxKeyEvents
  /\ game.isGrounded /\ ~game.hasStartedMoving /\ falls = 0
  /\ \E k \in PressedKeys :
       game' = [game EXCEPT !.keys[k] = ~@]
  /\ keyEvents' = keyEvents + 1
  /\ UNCHANGED <<pokiAvailable, animateRequests, fallFlows, frameTicks, lastFlow, falls, respawns, probe>>

\* handleFall after the 1200 ms timer, with enough progress: the prompt
FallTimerPrompt ==
  /\ fallFlows # << >>
  /\ fallFlows[1].pc = "timer"
  /\ offersContinue(game.platformsReached)
  /\ game' = saveHighScore(game, game.platformsReached)
  /\ fallFlows' = <<[pc |-> "prompt",
                     nearestPlatform |-> findNearestPlatform(game.world.platforms, game.position)]>>
                  \o Tail(fallFlows)
  /\ UNCHANGED <<pokiAvailable, animateRequests, frameTicks, keyEvents, lastFlow, falls, respawns, probe>>

\* The end of a handleFall on its "Full restart" lines
Restart(flow) ==
  /\ animateRequests < MaxArmed
  /\ game' = fullRestart(game)
  /\ animateRequests' = animateRequests + 1
  /\ fallFlows' = Tail(fallFlows)
  /\ lastFlow' = [flow EXCEPT !.branch = "restart"]
  /\ respawns' = respawns + 1
  /\ UNCHANGED <<pokiAvailable, frameTicks, keyEvents, falls, probe>>

\* handleFall after the timer, with too little progress
FallTimerRestart ==
  /\ fallFlows # << >>
  /\ fallFlows[1].pc = "timer"
  /\ ~offersContinue(game.platformsReached)
  /\ Restart(NoFlow)

\* rewardedBreak that takes an SDK error for a reward
rewardedBreakLenient(outcome) == outcome # "false"

\* poki.rewardedBreak: what the caller gets for the SDK's outcome
rewardedBreakResult(outcome) == outcome = "true"

\* showFallPrompt: WATCH AD with the SDK there; rewardedBreak awaits the SDK
PromptWatch ==
  /\ fallFlows # << >>
  /\ fallFlows[1].pc = "prompt"
  /\ pokiAvailable
  /\ fallFlows' = <<[fallFlows[1] EXCEPT !.pc = "ad"]>> \o Tail(fallFlows)
  /\ UNCHANGED <<game, pokiAvailable, animateRequests, frameTicks, keyEvents, lastFlow, falls, respawns, probe>>

\* showFallPrompt: WATCH AD without the SDK; rewardedBreak returns false
PromptWatchNoSdk ==
  /\ fallFlows # << >>
  /\ fallFlows[1].pc = "prompt"
  /\ ~pokiAvailable
  /\ Restart([NoFlow EXCEPT !.prompted = TRUE, !.watchAd = TRUE])

\* showFallPrompt: RESTART
PromptRestart ==
  /\ fallFlows # << >>
  /\ fallFlows[1].pc = "prompt"
  /\ Restart([NoFlow EXCEPT !.prompted = TRUE])

\* PokiSDK.rewardedBreak settles: the reward, no reward, or an error
AdSettles ==
  /\ fallFlows # << >>
  /\ fallFlows[1].pc = "ad"
  /\ \E outcome \in {"true", "false", "error"} :
       LET flow == [NoFlow EXCEPT !.prompted = TRUE, !.watchAd = TRUE,
                                  !.adRequested = TRUE, !.adOutcome = outcome]
       IN IF rewardedBreakResult(outcome)
          THEN /\ animateRequests < MaxArmed
               /\ game' = continueRun(game, fallFlows[1].nearestPlatform)
               /\ animateRequests' = animateRequests + 1
               /\ fallFlows' = Tail(fallFlows)
               /\ lastFlow' = [flow EXCEPT !.branch = "continue"]
               /\ respawns' = respawns + 1
               /\ UNCHANGED <<pokiAvailable, frameTicks, keyEvents, falls, probe>>
          ELSE Restart(flow)

Next ==
  \/ AnimateStopped
  \/ AnimateFrame
  \/ StartButton
  \/ KeyEvent
  \/ FallTimerPrompt
  \/ FallTimerRestart
  \/ PromptWatch
  \/ PromptWatchNoSdk
  \/ PromptRestart
  \/ AdSettles

Spec == Init /\ [][Next]_vars

\* The same program with the scheduling the browser gives: a requested
\* animation frame runs, the 1200 ms timer fires, the prompt is answered and
\* the rewarded ad settles.  TimerDue, PromptDue and AdDue are the guards of
\* the flow's steps (each step changes fallFlows), and weak fairness of a
\* step is written with its guard: it is not due forever without being taken.
TimerDue ==
  /\ fallFlows # << >>
  /\ fallFlows[1].pc = "timer"
  /\ (offersContinue(game.platformsReached) \/ animateRequests < MaxArmed)

PromptDue ==
  /\ fallFlows # << >>
  /\ fallFlows[1].pc = "prompt"
  /\ (pokiAvailable \/ animateRequests < MaxArmed)

AdDue ==
  /\ fallFlows # << >>
  /\ fallFlows[1].pc = "ad"
  /\ animateRequests < MaxArmed

Fairness ==
  /\ WF_vars(AnimateStopped)
  /\ ([]<>~TimerDue) \/ ([]<><<FallTimerPrompt \/ FallTimerRestart>>_vars)
  /\ ([]<>~PromptDue) \/ ([]<><<PromptWatch \/ PromptWatchNoSdk \/ PromptRestart>>_vars)
  /\ ([]<>~AdDue) \/ ([]<><<AdSettles>>_vars)

SpecFair == Init /\ [][Next]_vars /\ Fairness

\* ------------------------------------------------------------------------
\* The drop onto the start platform: the start button has been pressed, no
\* key is, and every frame has its own delta
\* ------------------------------------------------------------------------
RawTicks == {1, 2, 3, 4, 6}

InitDrop ==
  /\ game \in {enableInput(GameAt(seed, 0)) : seed \in Seeds}
  /\ pokiAvailable = TRUE
  /\ animateRequests = 1
  /\ fallFlows = << >>
  /\ frameTicks \in RawTicks
  /\ keyEvents = 0
  /\ lastFlow = NoFlow
  /\ falls = 0
  /\ respawns = 0
  /\ probe = NoProbe

\* The frames of the drop, followed while the player is over the platform
DropFrame ==
  /\ game.position.x = StartPosition.x /\ game.position.z = StartPosition.z
  /\ \E raw \in RawTicks : frameTicks' = raw
  /\ Frame(frameTicks)

SpecDrop == InitDrop /\ [][DropFrame]_vars

\* ------------------------------------------------------------------------
\* resolveCollision on its own
\* ------------------------------------------------------------------------
StartBox == PlatformBox(NewWorld(0, 0).platforms[1])

ProbeBodies ==
  {[pos |-> [x |-> x, y |-> y, z |-> z], vel |-> [x |-> 0, y |-> vy, z |-> -moveSpeed * Unit.len],
    isGrounded |-> FALSE, isJumping |-> FALSE] :
     x \in {0, 11600, 13600},
     y \in {-3600, -800, 0, 1600, 2400, 3600, 4000},
     z \in {-8000, -41200, 1600},
     vy \in {-10 * Unit.len, 0, 10 * Unit.len}}

InitCollide ==
  /\ game = NewGame(0, 0)
  /\ pokiAvailable = TRUE
  /\ animateRequests = 0
  /\ fallFlows = << >>
  /\ frameTicks = 2
  /\ keyEvents = 0
  /\ lastFlow = NoFlow
  /\ falls = 0
  /\ respawns = 0
  /\ probe \in {[kind |-> "collide", body |-> B, box |-> StartBox, done |-> FALSE, after |-> B] :
                  B \in {C \in ProbeBodies : intersectsBox(PlayerBox(C.pos), StartBox)}}

Resolve ==
  /\ probe.kind = "collide" /\ ~probe.done
  /\ probe' = [probe EXCEPT !.done = TRUE, !.after = resolveCollision(probe.body, probe.box)]
  /\ UNCHANGED <<game, pokiAvailable, animateRequests, fallFlows, frameTicks, keyEvents,
                 lastFlow, falls, respawns>>

SpecCollide == InitCollide /\ [][Resolve]_vars

\* ------------------------------------------------------------------------
\* findNearestPlatform on its own: late in a run the player has stood on a
\* fading platform until it died and has dropped from it
\* ------------------------------------------------------------------------
LateCount == 120
FadingAt(W) == {i \in 1..Len(W.platforms) : W.platforms[i].type = "fading"}
Offsets == {-9 * Unit.len, 0, 9 * Unit.len}

\* The registry as update leaves it with the player at z, platform i dead
LateRegistry(W, i) ==
  updateWorld([W EXCEPT !.platforms[i].touched = TRUE, !.platforms[i].fadeTimer = 0,
                        !.platforms[i].dead = TRUE],
              W.platforms[i].z, 2).platforms

FallenFrom(W, i, dx, dz) ==
  [kind |-> "nearest", platforms |-> LateRegistry(W, i),
   pos |-> [x |-> W.platforms[i].x + dx, y |-> (FALL_Y - 1) * Unit.len, z |-> W.platforms[i].z + dz],
   done |-> FALSE, at |-> 0, spawn |-> Zero3]

FallenIn(W) == {FallenFrom(W, i, dx, dz) : i \in FadingAt(W), dx \in Offsets, dz \in Offsets}

InitNearest ==
  /\ game = NewGame(0, 0)
  /\ pokiAvailable = TRUE
  /\ animateRequests = 0
  /\ fallFlows = << >>
  /\ frameTicks = 2
  /\ keyEvents = 0
  /\ lastFlow = NoFlow
  /\ falls = 0
  /\ respawns = 0
  /\ \E seed \in Seeds : probe \in FallenIn(GenerateUpTo(NewWorld(0, seed), LateCount))

Nearest ==
  /\ probe.kind = "nearest" /\ ~probe.done
  /\ probe' = [probe EXCEPT !.done = TRUE,
                            !.at = nearestIndex(probe.platforms, probe.pos),
                            !.spawn = findNearestPlatform(probe.platforms, probe.pos)]
  /\ UNCHANGED <<game, pokiAvailable, animateRequests, fallFlows, frameTicks, keyEvents,
                 lastFlow, falls, respawns>>

SpecNearest == InitNearest /\ [][Nearest]_vars

\* ------------------------------------------------------------------------
\* findNearestPlatform as a function of the registry, the empty registry
\* included: platforms[0] is then undefined and reading its box is a TypeError
\* ------------------------------------------------------------------------
LookupCounts == 30..35

lookupNearest(platforms, pos) ==
  IF platforms = << >> THEN [outcome |-> "TypeError", spawn |-> Zero3]
  ELSE [outcome |-> "returned", spawn |-> findNearestPlatform(platforms, pos)]

LookupRegistries ==
  {<< >>} \cup {GenerateUpTo(NewWorld(0, seed), n).platforms : seed \in Seeds, n \in LookupCounts}

LookupPositions ==
  {[x |-> dx, y |-> (FALL_Y - 1) * Unit.len, z |-> -(k * 10 * Unit.len)] : dx \in Offsets, k \in 0..3}

InitLookup ==
  /\ game = NewGame(0, 0)
  /\ pokiAvailable = TRUE
  /\ animateRequests = 0
  /\ fallFlows = << >>
  /\ frameTicks = 2
  /\ keyEvents = 0
  /\ lastFlow = NoFlow
  /\ falls = 0
  /\ respawns = 0
  /\ probe \in {[kind |-> "lookup", platforms |-> r, pos |-> q, done |-> FALSE,
                  outcome |-> "pending", spawn |-> Zero3] : r \in LookupRegistries, q \in LookupPositions}

Lookup ==
  /\ probe.kind = "lookup" /\ ~probe.done
  /\ probe' = [probe EXCEPT !.done = TRUE,
                            !.outcome = lookupNearest(probe.platforms, probe.pos).outcome,
                            !.spawn = lookupNearest(probe.platforms, probe.pos).spawn]
  /\ UNCHANGED <<game, pokiAvailable, animateRequests, fallFlows, frameTicks, keyEvents,
                 lastFlow, falls, respawns>>

SpecLookup == InitLookup /\ [][Lookup]_vars

\* ------------------------------------------------------------------------
\* The path generator on its own: generateNextPlatform called again and
\* again from the cursor the constructor and resetWorld start from, the
\* moving platforms moved by the frames between two calls
\* ------------------------------------------------------------------------
MaxGenerated == 120
NumGenSeeds == 6
GenSeeds == {(131 * s) % Unit.stream : s \in 0..(NumGenSeeds - 1)}
GenTicks == {0, 2, 4}

\* this.pathAngle as generateNextPlatform has it when it calls
\* avoidSelfIntersection
headingChosen(W) ==
  IF W.gen.generatedCount + 1 <= 5 THEN W.gen.pathAngle
  ELSE updatePathDirection(W.gen, RandomAdvance(W.rng)).gen.pathAngle

InitGenerate ==
  /\ game \in {withWorld(NewGame(0, 0), createStartPlatform(EmptyWorld(epoch, seed))) :
                 epoch \in {0, 1}, seed \in GenSeeds}
  /\ pokiAvailable = TRUE
  /\ animateRequests = 0
  /\ fallFlows = << >>
  /\ frameTicks \in GenTicks
  /\ keyEvents = 0
  /\ lastFlow = NoFlow
  /\ falls = 0
  /\ respawns = 0
  /\ probe = [kind |-> "generate", heading |-> 0]

Generate ==
  /\ probe.kind = "generate"
  /\ game.world.gen.generatedCount < MaxGenerated
  /\ game' = withWorld(game, generateNextPlatform(dynamicWorld(game.world, frameTicks)))
  /\ probe' = [probe EXCEPT !.heading = headingChosen(game.world)]
  /\ UNCHANGED <<pokiAvailable, animateRequests, fallFlows, frameTicks, keyEvents,
                 lastFlow, falls, respawns>>

SpecGenerate == InitGenerate /\ [][Generate]_vars

\* ------------------------------------------------------------------------
\* Late in a run, on a fading platform: the player has run onto it, or has
\* been respawned above it by a continue and waits there
\* ------------------------------------------------------------------------
LateGame(seed) == withWorld(NewGame(seed, 0), GenerateUpTo(NewWorld(0, seed), LateCount))

SpawnAbove(P) == [x |-> P.x, y |-> PlatformBox(P).maxY + Unit.len, z |-> P.z]

OnFading(fresh, i) ==
  {RunningOn(fresh, i, fresh.world.platforms[i]),
   resetPlayer(RunningOn(fresh, i, fresh.world.platforms[i]),
               SpawnAbove(fresh.world.platforms[i]))}

InitFade ==
  /\ \E seed \in Seeds : \E i \in FadingAt(LateGame(seed).world) :
        game \in OnFading(LateGame(seed), i)
  /\ pokiAvailable = TRUE
  /\ animateRequests = 1
  /\ fallFlows = << >>
  /\ frameTicks \in FrameTicks
  /\ keyEvents = 0
  /\ lastFlow = NoFlow
  /\ falls = 0
  /\ respawns = 0
  /\ probe = NoProbe

\* The frames up to the end of the first fall flow
FadeFrame == respawns = 0 /\ AnimateFrame

NextFade ==
  \/ AnimateStopped
  \/ FadeFrame
  \/ FallTimerPrompt
  \/ PromptWatch
  \/ PromptRestart
  \/ AdSettles

SpecFade == InitFade /\ [][NextFade]_vars

\* ------------------------------------------------------------------------
\* Jumping: the player has landed on the start platform, the jump key is
\* pressed and released on the ground and while the player rises, and the
\* jump cuts since the last jump impulse are counted
\* ------------------------------------------------------------------------
MaxJumpKeys == 4
MaxJumpFrames == 30

Landed(seed) ==
  [enableInput(start(NewGame(seed, 0))) EXCEPT
     !.position.y = StartBox.maxY + HalfSize, !.isGrounded = TRUE]

\* update multiplies velocity.y by jumpCut in this frame
cutApplied(G, k) == movePlayer(G, k).velocity.y # risingVelocity(G, k)

InitJump ==
  /\ game = Landed(0)
  /\ pokiAvailable = TRUE
  /\ animateRequests = 1
  /\ fallFlows = << >>
  /\ frameTicks \in FrameTicks
  /\ keyEvents = 0
  /\ lastFlow = NoFlow
  /\ falls = 0
  /\ respawns = 0
  /\ probe = [kind |-> "jump", frames |-> 0, jumped |-> FALSE, cuts |-> 0]

\* keydown / keyup of Space
JumpKey ==
  /\ keyEvents < MaxJumpKeys
  /\ game.isPlaying
  /\ game.isGrounded \/ game.velocity.y > 0
  /\ game' = [game EXCEPT !.keys["jump"] = ~@]
  /\ keyEvents' = keyEvents + 1
  /\ UNCHANGED <<pokiAvailable, animateRequests, fallFlows, frameTicks, lastFlow, falls,
                 respawns, probe>>

JumpFrame ==
  /\ probe.kind = "jump"
  /\ probe.frames < MaxJumpFrames
  /\ FrameOf(frameTicks)
  /\ probe' = [probe EXCEPT
                 !.frames = @ + 1,
                 !.jumped = @ \/ jumpImpulse(game),
                 !.cuts = IF jumpImpulse(game) THEN 0
                          ELSE IF cutApplied(game, clampDelta(frameTicks)) THEN @ + 1 ELSE @]
  /\ UNCHANGED frameTicks

SpecJump == InitJump /\ [][JumpKey \/ JumpFrame]_vars

\* ------------------------------------------------------------------------
\* PokiService on its own. sdk is the page's PokiSDK: "undefined", or defined
\* with an init() that "rejects" or "resolves". A call gives
\* [outcome, sdkCalls, callbacks, result]: whether it returned (resolved) or
\* threw (rejected), the SDK methods it called, the callbacks it invoked and
\* its value.
\* ------------------------------------------------------------------------
MaxPokiCalls == 3
SdkStates == {"undefined", "rejects", "resolves"}
NotifyMethods == {"gameLoadingFinished", "gameplayStart", "gameplayStop", "movePill"}
BreakCallbacks == {"muteAudio", "disableInput", "onStart", "unmuteAudio", "enableInput", "onFinish"}
CallbackSets == {{}, {"muteAudio", "unmuteAudio"}, BreakCallbacks}
SdkOutcomes == {"true", "false", "error"}

newPokiService == [isInitialized |-> FALSE, isAvailable |-> FALSE]

Returned(calls, callbacks, result) ==
  [outcome |-> "returned", sdkCalls |-> calls, callbacks |-> callbacks, order |-> << >>,
   result |-> result]

\* commercialBreak / rewardedBreak without "finally": an SDK error skips the
\* closing callbacks
breakOrderNoFinally(given, outcome) ==
  SelectSeq(<<"muteAudio", "disableInput", "onStart">>, LAMBDA c : c \in given)
  \o (IF outcome = "error" THEN << >>
      ELSE SelectSeq(<<"unmuteAudio", "enableInput", "onFinish">>, LAMBDA c : c \in given))

\* commercialBreak / rewardedBreak: the callbacks invoked, in order, the
\* first three before the SDK call and the last three in "finally"
breakOrder(given, outcome) ==
  SelectSeq(<<"muteAudio", "disableInput", "onStart">>, LAMBDA c : c \in given)
  \o SelectSeq(<<"unmuteAudio", "enableInput", "onFinish">>, LAMBDA c : c \in given)

\* a break that went through the SDK
Broke(calls, given, outcome, result) ==
  [outcome |-> "returned", sdkCalls |-> calls,
   callbacks |-> {breakOrder(given, outcome)[i] : i \in 1..Len(breakOrder(given, outcome))},
   order |-> breakOrder(given, outcome), result |-> result]

\* a reference to PokiSDK where it is not defined: ReferenceError
Threw ==
  [outcome |-> "threw", sdkCalls |-> << >>, callbacks |-> {}, order |-> << >>,
   result |-> "ReferenceError"]

\* init whose catch branch marks the SDK available
initCatchAvailable(P) == [P EXCEPT !.isInitialized = TRUE, !.isAvailable = TRUE]

\* init, the catch branch
initCatch(P) == [P EXCEPT !.isInitialized = TRUE, !.isAvailable = FALSE]

\* init: the service it leaves
init(P, sdk) ==
  IF P.isInitialized THEN P
  ELSE IF sdk = "undefined" THEN [P EXCEPT !.isInitialized = TRUE, !.isAvailable = FALSE]
  ELSE IF sdk = "resolves" THEN [P EXCEPT !.isInitialized = TRUE, !.isAvailable = TRUE]
  ELSE initCatch(P)

\* init: what the call does
initCall(P, sdk) ==
  IF P.isInitialized \/ sdk = "undefined" THEN Returned(<< >>, {}, "undefined")
  ELSE Returned(<<"init">>, {}, "undefined")

\* gameLoadingFinished, gameplayStart, gameplayStop, movePill
notify(P, sdk, method) ==
  IF ~P.isAvailable THEN Returned(<< >>, {}, "undefined")
  ELSE IF sdk = "undefined" THEN Threw
  ELSE Returned(<<method>>, {}, "undefined")

commercialBreak(P, sdk, callbacks, outcome) ==
  IF ~P.isAvailable THEN Returned(<< >>, {}, "undefined")
  ELSE IF sdk = "undefined" THEN Threw
  ELSE Broke(<<"gameplayStop", "commercialBreak">>, callbacks, outcome, "undefined")

rewardedBreak(P, sdk, callbacks, outcome) ==
  IF ~P.isAvailable THEN Returned(<< >>, {}, "false")
  ELSE IF sdk = "undefined" THEN Threw
  ELSE Broke(<<"gameplayStop", "rewardedBreak">>, callbacks, outcome,
             IF rewardedBreakResult(outcome) THEN "true" ELSE "false")

shareableURL(P, sdk, outcome) ==
  IF ~P.isAvailable THEN Returned(<< >>, {}, "null")
  ELSE IF sdk = "undefined" THEN Returned(<< >>, {}, "null")
  ELSE Returned(<<"shareableURL">>, {}, IF outcome = "error" THEN "null" ELSE "url")

wrapperCall(P, sdk, method, callbacks, outcome) ==
  IF method \in NotifyMethods THEN notify(P, sdk, method)
  ELSE IF method = "commercialBreak" THEN commercialBreak(P, sdk, callbacks, outcome)
  ELSE IF method = "rewardedBreak" THEN rewardedBreak(P, sdk, callbacks, outcome)
  ELSE shareableURL(P, sdk, outcome)

InitPoki ==
  /\ game = NewGame(0, 0)
  /\ pokiAvailable = FALSE
  /\ animateRequests = 0
  /\ fallFlows = << >>
  /\ frameTicks = 2
  /\ keyEvents = 0
  /\ lastFlow = NoFlow
  /\ falls = 0
  /\ respawns = 0
  /\ \E sdk \in SdkStates :
       probe = [kind |-> "poki", sdk |-> sdk, service |-> newPokiService, calls |-> 0,
                sdkCalls |-> << >>, method |-> "none", given |-> {}, settled |-> "none",
                last |-> Returned(<< >>, {}, "undefined")]

PokiStep(method, given, settled, service, call) ==
  /\ probe.kind = "poki"
  /\ probe.calls < MaxPokiCalls
  /\ probe' = [probe EXCEPT !.service = service, !.calls = @ + 1,
                            !.sdkCalls = @ \o call.sdkCalls,
                            !.method = method, !.given = given, !.settled = settled,
                            !.last = call]
  /\ pokiAvailable' = service.isAvailable
  /\ UNCHANGED <<game, animateRequests, fallFlows, frameTicks, keyEvents, lastFlow, falls,
                 respawns>>

PokiInit ==
  PokiStep("init", {}, "none", init(probe.service, probe.sdk),
           initCall(probe.service, probe.sdk))

PokiCall ==
  \E method \in NotifyMethods \cup {"commercialBreak", "rewardedBreak", "shareableURL"} :
    \E callbacks \in CallbackSets : \E outcome \in SdkOutcomes :
      PokiStep(method, callbacks, outcome, probe.service,
               wrapperCall(probe.service, probe.sdk, method, callbacks, outcome))

SpecPoki == InitPoki /\ [][PokiInit \/ PokiCall]_vars

\* ------------------------------------------------------------------------
\* The gameplay notifications of a run: startGame and handleFall call the
\* PokiService wrappers, and sent is what reaches PokiSDK of them, in order
\* ------------------------------------------------------------------------
MaxNotifyFalls == 4
ReachedAtFall == {4, 12}

RECURSIVE Gameplay(_)
Gameplay(calls) ==
  IF calls = << >> THEN << >>
  ELSE (IF Head(calls) \in {"gameplayStart", "gameplayStop"} THEN <<Head(calls)>> ELSE << >>)
       \o Gameplay(Tail(calls))

InitNotify ==
  /\ game = NewGame(0, 0)
  /\ pokiAvailable \in BOOLEAN
  /\ animateRequests = 0
  /\ fallFlows = << >>
  /\ frameTicks = 2
  /\ keyEvents = 0
  /\ lastFlow = NoFlow
  /\ falls = 0
  /\ respawns = 0
  /\ \E sdk \in SdkStates :
       /\ pokiAvailable = init(newPokiService, sdk).isAvailable
       /\ probe = [kind |-> "notify", sdk |-> sdk, service |-> init(newPokiService, sdk),
                   pc |-> "menu", reached |-> 0, falls |-> 0, sent |-> << >>]

NotifyStep(pc, calls) ==
  /\ probe.kind = "notify"
  /\ probe' = [probe EXCEPT !.pc = pc, !.sent = @ \o Gameplay(calls)]
  /\ UNCHANGED <<game, pokiAvailable, animateRequests, fallFlows, frameTicks, keyEvents,
                 lastFlow, falls, respawns>>

\* startGame: game.start(); poki.gameplayStart()
NotifyStartGame ==
  /\ probe.pc = "menu"
  /\ NotifyStep("playing", notify(probe.service, probe.sdk, "gameplayStart").sdkCalls)

\* handleFall up to the timer: this.stop(); poki.gameplayStop()
NotifyFall ==
  /\ probe.kind = "notify" /\ probe.pc = "playing"
  /\ probe.falls < MaxNotifyFalls
  /\ \E reached \in ReachedAtFall :
       /\ probe' = [probe EXCEPT
                      !.pc = IF offersContinue(reached) THEN "prompt" ELSE "restart",
                      !.reached = reached, !.falls = @ + 1,
                      !.sent = @ \o Gameplay(notify(probe.service, probe.sdk,
                                                     "gameplayStop").sdkCalls)]
       /\ UNCHANGED <<game, pokiAvailable, animateRequests, fallFlows, frameTicks, keyEvents,
                      lastFlow, falls, respawns>>

\* handleFall, "Full restart": this.start(); poki.gameplayStart()
NotifyRestart ==
  /\ probe.kind = "notify" /\ probe.pc \in {"prompt", "restart"}
  /\ probe' = [probe EXCEPT
                 !.pc = "playing", !.reached = 0,
                 !.sent = @ \o Gameplay(notify(probe.service, probe.sdk,
                                                "gameplayStart").sdkCalls)]
  /\ UNCHANGED <<game, pokiAvailable, animateRequests, fallFlows, frameTicks, keyEvents,
                 lastFlow, falls, respawns>>

\* handleFall, watchAd: poki.rewardedBreak() is called and runs up to its
\* await of the SDK
NotifyWatchAd ==
  /\ probe.pc = "prompt"
  /\ NotifyStep("ad", rewardedBreak(probe.service, probe.sdk, {}, "true").sdkCalls)

\* handleFall, after await poki.rewardedBreak(): this.start() and
\* poki.gameplayStart() on either path
NotifyAdSettles ==
  /\ probe.kind = "notify" /\ probe.pc = "ad"
  /\ \E outcome \in SdkOutcomes :
       /\ probe' = [probe EXCEPT
                      !.pc = "playing",
                      !.reached = IF rewardedBreak(probe.service, probe.sdk, {}, outcome).result
                                     = "true" THEN @ ELSE 0,
                      !.sent = @ \o Gameplay(notify(probe.service, probe.sdk,
                                                     "gameplayStart").sdkCalls)]
       /\ UNCHANGED <<game, pokiAvailable, animateRequests, fallFlows, frameTicks, keyEvents,
                      lastFlow, falls, respawns>>

SpecNotify ==
  InitNotify /\ [][NotifyStartGame \/ NotifyFall \/ NotifyRestart \/ NotifyWatchAd
                     \/ NotifyAdSettles]_vars

\* ------------------------------------------------------------------------
\* BuildPipeline: tasks are registered in a Map (kept here as the sequence of
\* its entries in insertion order), run() orders them with
\* getTopologicalOrder and awaits execute() of each in turn
\* ------------------------------------------------------------------------
MaxTasks == 3
MaxRebuilds == 1
TaskNames == {"Clean", "Source", "HTML"}
DependencyLists ==
  {<< >>, <<"Clean">>, <<"Source">>, <<"HTML">>,
   <<"Clean", "Source">>, <<"Source", "HTML">>, <<"HTML", "Clean">>}

registeredNames(tasks) == {tasks[i].name : i \in 1..Len(tasks)}

\* this.tasks.get(taskName), for a registered name
taskNamed(tasks, taskName) ==
  tasks[CHOOSE i \in 1..Len(tasks) : tasks[i].name = taskName]

\* the tasks in the order they were registered, unchecked
registrationOrder(tasks) ==
  [visited |-> registeredNames(tasks), visiting |-> {},
   result |-> [i \in 1..Len(tasks) |-> tasks[i].name], error |-> "none"]

\* getTopologicalOrder: visit and its loop over task.dependencies; a throw
\* is kept in error and ends every enclosing loop
RECURSIVE visit(_, _, _)
RECURSIVE visitEach(_, _, _, _)
visit(tasks, taskName, T) ==
  IF T.error # "none" \/ taskName \in T.visited THEN T
  ELSE IF taskName \in T.visiting THEN [T EXCEPT !.error = "Circular dependency detected"]
  ELSE IF taskName \notin registeredNames(tasks) THEN [T EXCEPT !.error = "Task not found"]
  ELSE LET below == visitEach(tasks, taskNamed(tasks, taskName).dependencies, 1,
                              [T EXCEPT !.visiting = @ \cup {taskName}])
       IN IF below.error # "none" THEN below
          ELSE [below EXCEPT !.visiting = @ \ {taskName},
                             !.visited = @ \cup {taskName},
                             !.result = Append(@, taskName)]

visitEach(tasks, names, i, T) ==
  IF i > Len(names) \/ T.error # "none" THEN T
  ELSE visitEach(tasks, names, i + 1, visit(tasks, names[i], T))

getTopologicalOrder(tasks) ==
  visitEach(tasks, [i \in 1..Len(tasks) |-> tasks[i].name], 1,
            [visited |-> {}, visiting |-> {}, result |-> << >>, error |-> "none"])

\* run that goes on with the tasks ordered before the throw
runEntryLenient(order) ==
  [pc |-> "running", order |-> order.result, error |-> order.error]

\* run, line 45: a throw of getTopologicalOrder leaves run before the loop
runEntry(order) ==
  IF order.error # "none" THEN [pc |-> "threw", order |-> << >>, error |-> order.error]
  ELSE [pc |-> "running", order |-> order.result, error |-> "none"]

\* getDependentTasks
getDependentTasks(tasks, taskName) ==
  SelectSeq(tasks, LAMBDA t : \E k \in 1..Len(t.dependencies) : t.dependencies[k] = taskName)

\* runTaskWithDependents. R = [executed, results]: the names of the tasks
\* executed so far, and the names results holds data for. withData are the
\* tasks whose execute returns data (a failing task returns none).
Executed(R, name, withData) ==
  [executed |-> Append(R.executed, name),
   results |-> R.results \cup (IF name \in withData THEN {name} ELSE {})]

RECURSIVE rebuildDependencies(_, _, _, _, _)
rebuildDependencies(tasks, names, k, withData, R) ==
  IF k > Len(names) THEN R
  ELSE rebuildDependencies(tasks, names, k + 1, withData,
         IF names[k] \notin R.results /\ names[k] \in registeredNames(tasks)
         THEN Executed(R, names[k], withData) ELSE R)

RECURSIVE rebuildDependents(_, _, _, _, _)
rebuildDependents(tasks, dependents, i, withData, R) ==
  IF i > Len(dependents) THEN R
  ELSE rebuildDependents(tasks, dependents, i + 1, withData,
         Executed(rebuildDependencies(tasks, dependents[i].dependencies, 1, withData, R),
                  dependents[i].name, withData))

runTaskWithDependents(tasks, taskName, failing, withData) ==
  LET executed == rebuildDependents(tasks, getDependentTasks(tasks, taskName), 1, withData,
                    Executed([executed |-> << >>, results |-> {}], taskName, withData)).executed
  IN [kind |-> "rebuild", executed |-> executed,
      failed |-> \E i \in 1..Len(executed) : executed[i] \in failing,
      hook |-> TRUE]                       \* this.options.onBuildComplete?.()

\* run, after the loop: onBuildComplete is called unless hasErrors
runBuild(finished, hasErrors) ==
  [kind |-> "run", executed |-> finished, failed |-> hasErrors, hook |-> ~hasErrors]

NoBuild == [kind |-> "none", executed |-> << >>, failed |-> FALSE, hook |-> FALSE]

NewPipeline ==
  [kind |-> "pipeline", tasks |-> << >>, pc |-> "idle", order |-> << >>, error |-> "none",
   started |-> << >>, finished |-> << >>, hasErrors |-> FALSE, result |-> "none",
   build |-> NoBuild, rebuilds |-> 0]

InitPipeline ==
  /\ game = NewGame(0, 0)
  /\ pokiAvailable = FALSE
  /\ animateRequests = 0
  /\ fallFlows = << >>
  /\ frameTicks = 2
  /\ keyEvents = 0
  /\ lastFlow = NoFlow
  /\ falls = 0
  /\ respawns = 0
  /\ probe = NewPipeline

PipelineStep(next) ==
  /\ probe.kind = "pipeline"
  /\ probe' = next
  /\ UNCHANGED <<game, pokiAvailable, animateRequests, fallFlows, frameTicks, keyEvents,
                 lastFlow, falls, respawns>>

\* register: a name already there throws and leaves the Map as it was
Register ==
  /\ probe.pc = "idle"
  /\ Len(probe.tasks) < MaxTasks
  /\ \E name \in TaskNames \ registeredNames(probe.tasks) : \E dependencies \in DependencyLists :
       PipelineStep([probe EXCEPT
         !.tasks = Append(@, [name |-> name, dependencies |-> dependencies])])

\* run, up to the loop over orderedTasks
Run ==
  /\ probe.pc = "idle"
  /\ PipelineStep([probe EXCEPT
        !.pc = runEntry(getTopologicalOrder(probe.tasks)).pc,
        !.order = runEntry(getTopologicalOrder(probe.tasks)).order,
        !.error = runEntry(getTopologicalOrder(probe.tasks)).error])

\* run, the loop: task.execute(ctx, depsData) is called
ExecuteStart ==
  /\ probe.pc = "running"
  /\ Len(probe.started) = Len(probe.finished)
  /\ Len(probe.started) < Len(probe.order)
  /\ PipelineStep([probe EXCEPT !.started = Append(@, probe.order[Len(probe.started) + 1])])

\* run, the loop: the awaited execute settles with a TaskResult
ExecuteFinish ==
  /\ probe.pc = "running"
  /\ Len(probe.started) > Len(probe.finished)
  /\ \E success \in BOOLEAN :
       PipelineStep([probe EXCEPT !.finished = Append(@, probe.started[Len(probe.started)]),
                                  !.hasErrors = @ \/ ~success])

\* run, after the loop
RunEnd ==
  /\ probe.pc = "running"
  /\ Len(probe.finished) = Len(probe.order)
  /\ PipelineStep([probe EXCEPT !.pc = "done",
                                !.result = IF probe.hasErrors THEN "false" ELSE "true",
                                !.build = runBuild(probe.finished, probe.hasErrors)])

\* watch: after run() a watched task's onChange runs runTaskWithDependents
Rebuild ==
  /\ probe.pc = "done"
  /\ probe.rebuilds < MaxRebuilds
  /\ \E taskName \in registeredNames(probe.tasks) :
       \E failing \in SUBSET registeredNames(probe.tasks) :
         \E withData \in SUBSET (registeredNames(probe.tasks) \ failing) :
           PipelineStep([probe EXCEPT
             !.rebuilds = @ + 1,
             !.build = runTaskWithDependents(probe.tasks, taskName, failing, withData)])

SpecPipeline ==
  InitPipeline /\ [][Register \/ Run \/ ExecuteStart \/ ExecuteFinish \/ RunEnd \/ Rebuild]_vars

\* ------------------------------------------------------------------------
\* BaseTask.watchPaths: each watched task has its own handleChange, with its
\* debounce timeout and its isProcessing flag. stale records that a change
\* has arrived after which no rebuild (onChange) has started yet.
\* ------------------------------------------------------------------------
MaxChanges == 6
WatchedTasks == {"Source", "Copy"}

NewWatcher == [timeout |-> FALSE, isProcessing |-> FALSE, stale |-> FALSE]

InitWatch ==
  /\ game = NewGame(0, 0)
  /\ pokiAvailable = FALSE
  /\ animateRequests = 0
  /\ fallFlows = << >>
  /\ frameTicks = 2
  /\ keyEvents = 0
  /\ lastFlow = NoFlow
  /\ falls = 0
  /\ respawns = 0
  /\ probe = [kind |-> "watch", changes |-> 0, w |-> [t \in WatchedTasks |-> NewWatcher]]

WatchStep(t, watcher, changes) ==
  /\ probe.kind = "watch"
  /\ probe' = [probe EXCEPT !.w[t] = watcher, !.changes = changes]
  /\ UNCHANGED <<game, pokiAvailable, animateRequests, fallFlows, frameTicks, keyEvents,
                 lastFlow, falls, respawns>>

\* handleChange: a file event clears the pending timeout and sets a new one
WatchChange ==
  \E t \in WatchedTasks :
    /\ probe.changes < MaxChanges
    /\ WatchStep(t, [probe.w[t] EXCEPT !.timeout = TRUE, !.stale = TRUE], probe.changes + 1)

\* the timeout's callback: returns when a rebuild is in progress, otherwise
\* sets isProcessing and awaits onChange()
WatchTimeout ==
  \E t \in WatchedTasks :
    /\ probe.w[t].timeout
    /\ WatchStep(t, IF probe.w[t].isProcessing
                    THEN [probe.w[t] EXCEPT !.timeout = FALSE]
                    ELSE [probe.w[t] EXCEPT !.timeout = FALSE, !.isProcessing = TRUE,
                                            !.stale = FALSE],
                 probe.changes)

\* the awaited onChange() settles: finally isProcessing = false
WatchRebuilt ==
  \E t \in WatchedTasks :
    /\ probe.w[t].isProcessing
    /\ WatchStep(t, [probe.w[t] EXCEPT !.isProcessing = FALSE], probe.changes)

\* Timers fire and rebuilds settle
SpecWatch ==
  /\ InitWatch /\ [][WatchChange \/ WatchTimeout \/ WatchRebuilt]_vars
  /\ WF_vars(WatchTimeout) /\ WF_vars(WatchRebuilt)

\* ------------------------------------------------------------------------
\* Properties
\* ------------------------------------------------------------------------
FlowEnds == fallFlows # << >> /\ fallFlows' = Tail(fallFlows)
Resumed(G) ==
  /\ G.velocity = Zero3 /\ G.playerAngle = 0 /\ ~G.hasStartedMoving
  /\ ~G.isFalling /\ G.isPlaying

\* C1: while a fall flow is unresolved isFalling is true and no second
\* handleFall is started; every drop below the fall height has exactly one
\* handleFall, which respawns the player exactly once.
C1_OneFlowPerFall ==
  /\ Len(fallFlows) <= 1
  /\ game.isFalling <=> Len(fallFlows) = 1
  /\ falls = respawns + Len(fallFlows)

\* A frame callback has run while the fall flow was waiting, and a second fall
\* is being handled
C1_Witness ==
  /\ game.isFalling /\ Len(fallFlows) = 1 /\ animateRequests = 0
  /\ falls = 2 /\ respawns = 1

\* C2: the respawn point findNearestPlatform computes is on top of an alive
\* platform at the least horizontal distance among the alive platforms.
C2_NearestAlive ==
  (probe.kind = "nearest" /\ probe.done) =>
     LET chosen == probe.platforms[probe.at]
         distance(p) == Hypot(p.x - probe.pos.x, p.z - probe.pos.z)
     IN /\ ~chosen.dead
        /\ probe.spawn = [x |-> chosen.x, y |-> PlatformBox(chosen).maxY + Unit.len, z |-> chosen.z]
        /\ \A i \in 1..Len(probe.platforms) :
             ~probe.platforms[i].dead => distance(chosen) <= distance(probe.platforms[i])

\* C3: a player at rest on top of a static platform with no key pressed is
\* grounded with velocity.y = 0 at the end of every following frame.
AtRest(G) ==
  /\ G.isGrounded /\ G.velocity = Zero3 /\ ~AnyKey(G.keys) /\ ~G.hasStartedMoving
  /\ \E i \in 1..Len(G.world.platforms) :
       LET b == PlatformBox(G.world.platforms[i])
       IN /\ G.world.platforms[i].type = "normal"
          /\ G.position.y = b.maxY + HalfSize
          /\ b.minX < G.position.x /\ G.position.x < b.maxX
          /\ b.minZ < G.position.z /\ G.position.z < b.maxZ

C3_StaysGrounded ==
  [][AtRest(game) => (game'.isGrounded /\ game'.velocity.y = 0)]_vars

\* C4: released above the start platform with no input, the player is never
\* pushed sideways off the platform nor dropped through it, whatever the
\* frame deltas.
C4_LandsOnStart ==
  /\ game.position.x = StartPosition.x
  /\ game.position.z = StartPosition.z
  /\ game.position.y >= StartBox.maxY + HalfSize

\* C5: when resolveCollision returns, the player box does not penetrate the
\* platform on the axis the call resolved, whatever the velocity.
overlapOn(axis, pb, b) ==
  IF axis = "x" THEN overlapX(pb, b) ELSE IF axis = "y" THEN overlapY(pb, b) ELSE overlapZ(pb, b)

C5_OverlapRemoved ==
  (probe.kind = "collide" /\ probe.done) =>
     overlapOn(resolvedAxis(probe.body, probe.box), PlayerBox(probe.after.pos), probe.box) <= 0

\* C6: a fall flow ends with the player on the nearest platform and the
\* progress kept only if at least 10 platforms were reached, the user chose
\* the ad and the rewarded ad resolved true; every other flow ends with the
\* world reset and the player at the start position.
Continued ==
  /\ game'.position = findNearestPlatform(game.world.platforms, game.position)
  /\ game'.world = game.world
  /\ game'.platformsReached = game.platformsReached
  /\ game'.touchedPlatforms = game.touchedPlatforms
  /\ game'.gemsCollected = game.gemsCollected

Restarted ==
  /\ game'.position = StartPosition
  /\ game'.platformsReached = 0 /\ game'.touchedPlatforms = {} /\ game'.gemsCollected = 0
  /\ game'.world.epoch # game.world.epoch
  /\ game'.world.gen.generatedCount = PLATFORMS_AHEAD

C6_ContinueGated ==
  [][FlowEnds =>
       IF /\ game.platformsReached >= CONTINUE_THRESHOLD
          /\ lastFlow'.watchAd /\ pokiAvailable /\ lastFlow'.adOutcome = "true"
       THEN Continued ELSE Restarted]_vars

\* A flow has continued after a rewarded ad, and the player stands where
\* findNearestPlatform put it
C6_Witness ==
  /\ lastFlow.branch = "continue" /\ lastFlow.adOutcome = "true"
  /\ game.platformsReached >= CONTINUE_THRESHOLD /\ respawns >= 1

\* C7: a fall handled with at least 10 platforms reached shows the prompt
\* before any reset or respawn; with fewer there is no prompt and no
\* rewarded ad, and the flow goes straight to the full reset.
TimerStep == fallFlows # << >> /\ fallFlows[1].pc = "timer" /\ fallFlows' # fallFlows

C7_OfferThreshold ==
  /\ [](\A i \in 1..Len(fallFlows) :
          fallFlows[i].pc \in {"prompt", "ad"} => game.platformsReached >= CONTINUE_THRESHOLD)
  /\ [][TimerStep =>
          IF game.platformsReached >= CONTINUE_THRESHOLD
          THEN /\ Len(fallFlows') = 1 /\ fallFlows'[1].pc = "prompt"
               /\ game'.world = game.world /\ game'.position = game.position
               /\ game'.platformsReached = game.platformsReached
               /\ game'.isFalling /\ ~game'.isPlaying
          ELSE /\ fallFlows' = << >>
               /\ ~lastFlow'.prompted /\ ~lastFlow'.adRequested
               /\ Restarted]_vars

\* The prompt is up after a fall at exactly the threshold
C7_Witness ==
  /\ Len(fallFlows) = 1 /\ fallFlows[1].pc = "prompt"
  /\ game.platformsReached = CONTINUE_THRESHOLD

\* C8: at most one animate callback is requested at any time.
C8_OneLoop == animateRequests <= 1

\* C9: every handleFall ends with velocity (0,0,0), playerAngle 0,
\* hasStartedMoving false, isFalling false, isPlaying true and an animate
\* callback requested; and every fall flow does end.
C9_FlowResumes ==
  /\ [][FlowEnds => (Resumed(game') /\ animateRequests' >= 1)]_vars
  /\ (game.isFalling ~> ~game.isFalling)

\* A flow that asked for the ad and did not get the reward has restarted play
C9_Witness ==
  /\ lastFlow.branch = "restart" /\ lastFlow.adOutcome = "error"
  /\ Resumed(game) /\ animateRequests >= 1

\* C10: after the restart branch nothing of the old world is left: the
\* registry is a new start platform and 25 new platforms with indexes 1..25,
\* generated by a generator restarted at the far edge of the start platform
\* with pathAngle, turnRate and turnChangeTimer 0, and the progress counters
\* are zero, as right after construction.
RestartStep == FlowEnds /\ lastFlow'.branch = "restart"

AsConstructed(W, rng) ==
  W = generateInitialPlatforms(createStartPlatform(
        [platforms |-> << >>, gems |-> << >>,
         gen |-> [generatedCount |-> 0, lastGenX |-> 0, lastGenY |-> 0, lastGenZ |-> 0,
                  pathAngle |-> 0, turnRate |-> 0, turnChangeTimer |-> 0],
         rng |-> rng, epoch |-> W.epoch]))

C10_FullReset ==
  [][RestartStep =>
       LET W == game'.world
           old == {game.world.platforms[i].id : i \in 1..Len(game.world.platforms)}
                    \cup game.touchedPlatforms
       IN /\ Len(W.platforms) = PLATFORMS_AHEAD + 1
          /\ \A i \in 1..Len(W.platforms) :
               W.platforms[i].index = i - 1 /\ W.platforms[i].id \notin old
          /\ PlatformBox(W.platforms[1]) = StartBox
          /\ W.platforms[2].x = 0 /\ W.platforms[2].z = -StartSize.depth - 4 * Unit.len
          /\ W.gen.generatedCount = PLATFORMS_AHEAD
          /\ Len(W.gems) = PLATFORMS_AHEAD \div 5
          /\ AsConstructed(W, game.world.rng)
          /\ game'.platformsReached = 0 /\ game'.gemsCollected = 0
          /\ game'.touchedPlatforms = {}]_vars

\* A world with progress and collected gems has been reset
C10_Witness ==
  /\ lastFlow.branch = "restart" /\ lastFlow.prompted
  /\ game.world.epoch = 1 /\ game.platformsReached = 0 /\ respawns = 1
  /\ game.position = StartPosition

\* C11: after every generateNextPlatform call |pathAngle| <= pi/3, also when
\* avoidSelfIntersection has overwritten the heading.
C11_PathAngleBound == Abs(game.world.gen.pathAngle) <= MaxAngle

\* A call past the tutorial in which avoidSelfIntersection replaced the
\* heading updatePathDirection had turned to
C11_Witness ==
  /\ probe.kind = "generate"
  /\ game.world.gen.generatedCount > 40
  /\ probe.heading # 0
  /\ game.world.gen.pathAngle # probe.heading

\* C12: in a world generated from the constructor's or resetWorld's cursor,
\* each of the first five generateNextPlatform calls adds a normal platform
\* of size 3.5 at x = 0, y = 0, 4 units further along -Z than the generator
\* position before the call, and leaves pathAngle 0.
LastPlatform(W) == W.platforms[Len(W.platforms)]

C12_Tutorial ==
  [][game'.world.gen.generatedCount <= 5 =>
       /\ Len(game'.world.platforms) = Len(game.world.platforms) + 1
       /\ LastPlatform(game'.world).index = game.world.gen.generatedCount + 1
       /\ LastPlatform(game'.world).type = "normal"
       /\ LastPlatform(game'.world).w = (7 * Unit.len) \div 2
       /\ LastPlatform(game'.world).d = (7 * Unit.len) \div 2
       /\ LastPlatform(game'.world).x = 0
       /\ LastPlatform(game'.world).y = 0
       /\ LastPlatform(game'.world).z = game.world.gen.lastGenZ - 4 * Unit.len
       /\ game'.world.gen.lastGenZ = game.world.gen.lastGenZ - 4 * Unit.len
       /\ game'.world.gen.pathAngle = 0]_vars

\* The fifth platform of a world generated after a reset
C12_Witness ==
  /\ probe.kind = "generate"
  /\ game.world.epoch = 1
  /\ game.world.gen.generatedCount = 5
  /\ Len(game.world.platforms) = 6
  /\ LastPlatform(game.world).z = -(StartSize.depth + 20 * Unit.len)

\* C13: the registry is never empty and its first element is the start
\* platform (index 0) of the current world, however far the player is.
C13_StartPlatformKept ==
  /\ Len(game.world.platforms) >= 1
  /\ game.world.platforms[1] =
       createStartPlatform(EmptyWorld(game.world.epoch, 0)).platforms[1]

\* Frames have run after a continue, far down the path: the start platform
\* lies behind the removal threshold of cleanupOldPlatforms
C13_Witness ==
  /\ lastFlow.branch = "continue" /\ game.isPlaying /\ game.isGrounded
  /\ game.world.platforms[1].z > game.position.z + PLATFORMS_BEHIND * 6 * Unit.len
  /\ game.world.platforms[1].index = 0

\* C14: a dead platform stays dead, grounds nobody and adds nothing to the
\* touched set, and stays in the registry until cleanupOldPlatforms removes
\* it by the z threshold or the world is reset.
Registered(W) == {W.platforms[i].id : i \in 1..Len(W.platforms)}
DeadIn(W) == {i \in 1..Len(W.platforms) : W.platforms[i].dead}
AliveUnder(G) ==
  {i \in 1..Len(G.world.platforms) :
     /\ ~G.world.platforms[i].dead
     /\ G.position.y = PlatformBox(G.world.platforms[i]).maxY + HalfSize
     /\ intersectsBox(PlayerBox(G.position), PlatformBox(G.world.platforms[i]))}

C14_DeadIsInert ==
  [][/\ \A i \in DeadIn(game.world) :
          LET p == game.world.platforms[i]
          IN /\ \A j \in 1..Len(game'.world.platforms) :
                  game'.world.platforms[j].id = p.id => game'.world.platforms[j].dead
             /\ (p.id \notin game.touchedPlatforms) => (p.id \notin game'.touchedPlatforms)
             /\ (/\ game'.world.epoch = game.world.epoch
                 /\ p.z <= game'.position.z + PLATFORMS_BEHIND * 6 * Unit.len)
                  => p.id \in Registered(game'.world)
     /\ (game'.isGrounded /\ game' # game) => AliveUnder(game') # {}]_vars

\* The player is falling through the dead platform it stood on: its box
\* penetrates the platform's box and it is not grounded
C14_Witness ==
  /\ ~game.isGrounded /\ game.velocity.y < 0
  /\ \E i \in DeadIn(game.world) :
       /\ overlapX(PlayerBox(game.position), PlatformBox(game.world.platforms[i])) > 0
       /\ overlapY(PlayerBox(game.position), PlatformBox(game.world.platforms[i])) > 0
       /\ overlapZ(PlayerBox(game.position), PlatformBox(game.world.platforms[i])) > 0

\* C15: platformsReached is the number of distinct platforms touched since
\* the last full reset: a platform the player box touches is in the touched
\* set and counted once, the set loses nothing while the world lasts (not
\* when a touched platform is retired, not on a continue), and a reset
\* empties it.
C15_CountsDistinctTouched ==
  /\ [](game.platformsReached = Cardinality(game.touchedPlatforms))
  /\ [][/\ \A i \in AliveUnder(game') :
              game'.world.platforms[i].id \in game'.touchedPlatforms
         /\ IF game'.world.epoch = game.world.epoch
            THEN game.touchedPlatforms \subseteq game'.touchedPlatforms
            ELSE game'.touchedPlatforms = {} /\ game'.platformsReached = 0]_vars

\* After a continue the player stands again on a platform it had touched
\* before the fall, and a touched platform has been retired: the count is
\* what it was
C15_Witness ==
  /\ lastFlow.branch = "continue" /\ game.isGrounded
  /\ game.platformsReached >= CONTINUE_THRESHOLD
  /\ game.touchedPlatforms \ Registered(game.world) # {}
  /\ AliveUnder(game) # {}

\* C16: between two jump impulses velocity.y is multiplied by jumpCut at
\* most once, and only in a frame in which the jump key is up, isJumping is
\* true and velocity.y > 0.
C16_CutOncePerJump ==
  /\ [](probe.kind = "jump" => probe.cuts <= 1)
  /\ [][(game.isPlaying /\ cutApplied(game, clampDelta(frameTicks)) /\ game' # game)
          => (/\ ~game.keys["jump"] /\ game.isJumping
              /\ risingVelocity(game, clampDelta(frameTicks)) > 0)]_vars

\* The jump was cut, and the key has been pressed and released again while
\* the player was still rising
C16_Witness ==
  /\ probe.kind = "jump" /\ probe.cuts = 1 /\ keyEvents = 4
  /\ ~game.keys["jump"] /\ ~game.isGrounded /\ game.velocity.y > 0

SdkMissing == probe.sdk # "resolves" \/ ~probe.service.isInitialized

\* C18: while PokiSDK is undefined, init() has not been called or
\* PokiSDK.init() rejected, no wrapper method (init included) throws or
\* rejects, none calls an SDK method other than init's own PokiSDK.init(),
\* none invokes a callback, rewardedBreak resolves false, shareableURL
\* resolves null and commercialBreak resolves with no value.
C18_SdkMissingFallbacks ==
  [][(probe.kind = "poki" /\ probe'.kind = "poki" /\ probe'.calls = probe.calls + 1
       /\ SdkMissing /\ SdkMissing')
      => /\ probe'.last.outcome = "returned"
         /\ probe'.last.callbacks = {}
         /\ probe'.sdkCalls = probe.sdkCalls \o (IF probe'.method = "init" /\ probe.sdk = "rejects"
                                                    /\ ~probe.service.isInitialized
                                                  THEN <<"init">> ELSE << >>)
         /\ probe'.method = "rewardedBreak" => probe'.last.result = "false"
         /\ probe'.method = "shareableURL" => probe'.last.result = "null"
         /\ probe'.method \in NotifyMethods \cup {"commercialBreak"}
              => probe'.last.result = "undefined"
         /\ ~probe'.service.isAvailable]_vars

\* PokiSDK.init() rejected, then a rewarded break was asked for with every
\* callback given
C18_Witness ==
  /\ probe.kind = "poki" /\ probe.sdk = "rejects" /\ probe.service.isInitialized
  /\ probe.sdkCalls = <<"init">>
  /\ probe.method = "rewardedBreak" /\ probe.given = BreakCallbacks
  /\ probe.last.result = "false"

\* Every dependency names a registered task and the tasks can be ranked so
\* that each task ranks above its dependencies
Acyclic(tasks) ==
  /\ \A i \in 1..Len(tasks) : \A k \in 1..Len(tasks[i].dependencies) :
        tasks[i].dependencies[k] \in registeredNames(tasks)
  /\ \E rank \in [registeredNames(tasks) -> 1..MaxTasks] :
        \A i \in 1..Len(tasks) : \A k \in 1..Len(tasks[i].dependencies) :
          rank[tasks[i].dependencies[k]] < rank[tasks[i].name]

Occurrences(seq, x) == Cardinality({i \in 1..Len(seq) : seq[i] = x})

\* C19: with acyclic dependencies among the registered tasks run() does not
\* throw, a task's execute is called only after the execute of each of its
\* dependencies has settled, no task is executed twice, and when run()
\* returns every registered task has been executed exactly once.
C19_DependenciesFirst ==
  (probe.kind = "pipeline" /\ probe.pc # "idle" /\ Acyclic(probe.tasks)) =>
     /\ probe.pc # "threw"
     /\ \A i \in 1..Len(probe.started) :
          LET deps == taskNamed(probe.tasks, probe.started[i]).dependencies
          IN \A k \in 1..Len(deps) : \E j \in 1..(i - 1) :
               j <= Len(probe.finished) /\ probe.finished[j] = deps[k]
     /\ \A name \in registeredNames(probe.tasks) : Occurrences(probe.started, name) <= 1
     /\ probe.pc = "done" =>
          \A name \in registeredNames(probe.tasks) :
            Occurrences(probe.started, name) = 1 /\ Occurrences(probe.finished, name) = 1

\* Three tasks registered with each dependent ahead of its dependency, and
\* the run has returned
C19_Witness ==
  /\ probe.kind = "pipeline" /\ probe.pc = "done"
  /\ Len(probe.tasks) = 3
  /\ probe.tasks[1].dependencies = <<"Source", "HTML">>
  /\ probe.tasks[2].dependencies = <<"HTML">>
  /\ probe.finished[3] = probe.tasks[1].name

\* C20: when the dependencies contain a cycle (a task naming itself
\* included) or name a task that is not registered, run() throws
\* "Circular dependency detected" or "Task not found" and no execute has
\* been called.
C20_BadGraphRejected ==
  (probe.kind = "pipeline" /\ probe.pc # "idle" /\ ~Acyclic(probe.tasks)) =>
     /\ probe.pc = "threw"
     /\ probe.error \in {"Circular dependency detected", "Task not found"}
     /\ probe.started = << >>
     /\ (\A i \in 1..Len(probe.tasks) : \A k \in 1..Len(probe.tasks[i].dependencies) :
           probe.tasks[i].dependencies[k] \in registeredNames(probe.tasks))
          => probe.error = "Circular dependency detected"

\* A cycle behind a well-formed first task: the second and third task depend
\* on each other, and run() has thrown
C20_Witness ==
  /\ probe.kind = "pipeline" /\ probe.pc = "threw"
  /\ Len(probe.tasks) = 3
  /\ probe.tasks[1].dependencies = << >>
  /\ probe.tasks[2].dependencies = <<probe.tasks[3].name>>
  /\ probe.tasks[3].dependencies = <<probe.tasks[2].name>>

\* A frame of update that got past its early returns
FrameTaken == game.isPlaying /\ game'.keys = game.keys /\ game' # game

\* The Game as update enters its collision step, and the body as the loop
\* reaches registry position i
EnteringCollision(G, k) ==
  withWorld(movePlayer(G, k),
            updateWorld(movePlayer(G, k).world, movePlayer(G, k).position.z, k))

BodyReaching(E, i) ==
  CollisionLoop(SubSeq(E.world.platforms, 1, i - 1), 1,
    [body |-> [pos |-> E.position, vel |-> E.velocity,
               isGrounded |-> FALSE, isJumping |-> E.isJumping],
     hit |-> {}]).body

LandsOn(B, b) ==
  /\ intersectsBox(PlayerBox(B.pos), b)
  /\ overlapY(PlayerBox(B.pos), b) <= overlapX(PlayerBox(B.pos), b)
  /\ overlapY(PlayerBox(B.pos), b) <= overlapZ(PlayerBox(B.pos), b)
  /\ B.vel.y < 0
  /\ B.pos.y >= b.maxY

\* C21: whenever isGrounded is true at the end of a frame, the collision
\* loop of that same frame resolved a landing on a platform that is not
\* dead (Y overlap smallest or tied, velocity.y < 0, centre at or above the
\* top), velocity.y is 0 and the player's y is that platform's top + 0.5;
\* a frame without such a landing ends with isGrounded false.
C21_GroundedMeansLanded ==
  [][(FrameTaken /\ game'.isGrounded) =>
       /\ game'.velocity.y = 0
       /\ \E i \in 1..Len(EnteringCollision(game, clampDelta(frameTicks)).world.platforms) :
            LET E == EnteringCollision(game, clampDelta(frameTicks))
                b == PlatformBox(E.world.platforms[i])
            IN /\ game'.position.y = b.maxY + HalfSize
               /\ ~E.world.platforms[i].dead
               /\ LandsOn(BodyReaching(E, i), b)]_vars

\* After a jump the player has landed on a platform past the start platform
\* and the frame ended grounded
C21_Witness ==
  /\ probe.kind = "jump" /\ probe.jumped
  /\ game.isPlaying /\ game.isGrounded /\ game.velocity.y = 0
  /\ \E i \in 2..Len(game.world.platforms) :
       /\ game.position.y = PlatformBox(game.world.platforms[i]).maxY + HalfSize
       /\ intersectsBox(PlayerBox(game.position), PlatformBox(game.world.platforms[i]))

\* generateNextPlatform: the gap it draws and the unadjusted candidate
\* position (nextX, nextZ) for the next platform of world W
gapChosen(W) ==
  IF W.gen.generatedCount + 1 <= 5 THEN 4 * Unit.len
  ELSE (7 * Unit.len) \div 2 + 20 * Min(W.gen.generatedCount + 1, 200)
       + RandomValue(W.rng) * 625

candidateChosen(W) ==
  [x |-> W.gen.lastGenX + RoundDiv(Sin(headingChosen(W)) * gapChosen(W), Unit.len),
   z |-> W.gen.lastGenZ - RoundDiv(Cos(headingChosen(W)) * gapChosen(W), Unit.len)]

\* The recent platforms (the last 30 at most) other than the newest one
RecentButLast(W) == {i \in 1..(Len(W.platforms) - 1) : i > Len(W.platforms) - 30}

\* C22: a post-tutorial platform whose unadjusted candidate is at least
\* gap * 1.5 away from every recent platform other than its immediate
\* predecessor is placed at the candidate, at distance gap from the
\* previously generated platform.
C22_PlacedAtGap ==
  [][(/\ probe.kind = "generate"
      /\ game'.world.gen.generatedCount = game.world.gen.generatedCount + 1
      /\ game'.world.gen.generatedCount > 5
      /\ \A i \in RecentButLast(dynamicWorld(game.world, frameTicks)) :
            2 * Hypot(candidateChosen(game.world).x
                        - dynamicWorld(game.world, frameTicks).platforms[i].x,
                      candidateChosen(game.world).z
                        - dynamicWorld(game.world, frameTicks).platforms[i].z)
              >= 3 * gapChosen(game.world))
       => /\ LastPlatform(game'.world).x = candidateChosen(game.world).x
          /\ LastPlatform(game'.world).z = candidateChosen(game.world).z]_vars

\* C23: in every frame updatePlatformGeneration returns after a bounded
\* number of generateNextPlatform calls (at most one per unit of the
\* lookahead), and when it has returned a generated platform lies at least
\* PLATFORMS_AHEAD * 5 = 125 units ahead of the player along -Z.
C23_LookaheadRestored ==
  [][FrameTaken =>
       /\ \E i \in 1..Len(game'.world.platforms) :
            movePlayer(game, clampDelta(frameTicks)).position.z - game'.world.platforms[i].z
              >= PLATFORMS_AHEAD * 5 * Unit.len
       /\ game'.world.gen.generatedCount - game.world.gen.generatedCount
            <= PLATFORMS_AHEAD * 5]_vars

\* A frame has just generated: the newest platform is 125 units ahead of the
\* running player and the one before it is not
C23_Witness ==
  /\ game.isPlaying /\ game.hasStartedMoving /\ ~game.isGrounded
  /\ Len(game.world.platforms) > 2
  /\ game.position.z - LastPlatform(game.world).z >= PLATFORMS_AHEAD * 5 * Unit.len
  /\ game.position.z - game.world.platforms[Len(game.world.platforms) - 1].z
       < PLATFORMS_AHEAD * 5 * Unit.len - moveSpeed * Unit.len

\* C24: within one world every newly generated platform is placed strictly
\* further along -Z than every platform generated before it, also when
\* avoidSelfIntersection has pushed it, so the last element of platforms is
\* the furthest one.
C24_PathMovesForward ==
  /\ [](\A i \in 1..(Len(game.world.platforms) - 1) :
          game.world.platforms[i].z > LastPlatform(game.world).z)
  /\ [][(probe.kind = "generate"
          /\ game'.world.gen.generatedCount = game.world.gen.generatedCount + 1)
         => /\ LastPlatform(game'.world).z < LastPlatform(game.world).z
            /\ game'.world.gen.lastGenZ < game.world.gen.lastGenZ
            /\ LastPlatform(game'.world).z = game'.world.gen.lastGenZ]_vars

\* A platform past the tutorial that avoidSelfIntersection pushed sideways
\* as well as forward: it lies off the line of the heading chosen for it
C24_Witness ==
  /\ probe.kind = "generate"
  /\ game.world.gen.generatedCount > 60
  /\ probe.heading # 0
  /\ game.world.gen.pathAngle # RoundDiv(probe.heading, 2)
  /\ game.world.gen.pathAngle # probe.heading

FadeTime == (3 * Unit.len) \div 2

\* The platform of world W that has the id of p, if it is still registered
SameIn(W, p) == {j \in 1..Len(W.platforms) : W.platforms[j].id = p.id}

\* C25: a fading platform that was never touched keeps its full 1.5 s and
\* is not dead; once it is touched every later frame takes that frame's
\* positive delta from its fadeTimer, so the timer holds 1.5 s less the frame
\* time accumulated since the touch, and the platform is dead from the
\* frame in which that time reaches 1.5 s, for as long as it stays in the
\* registry of the same world.
C25_FadingCountdown ==
  /\ [](\A i \in 1..Len(game.world.platforms) :
          LET p == game.world.platforms[i]
          IN /\ p.dead => (p.type = "fading" /\ p.touched)
             /\ ~p.touched => p.fadeTimer = FadeTime
             /\ p.touched => (p.dead <=> p.fadeTimer <= 0))
  /\ [][FrameTaken =>
         \A i \in 1..Len(game.world.platforms) :
           LET p == game.world.platforms[i]
           IN (p.type = "fading" /\ p.touched /\ ~p.dead) =>
                \A j \in SameIn(game'.world, p) :
                  /\ game'.world.platforms[j].fadeTimer
                       = p.fadeTimer - FadeStep(clampDelta(frameTicks))
                  /\ game'.world.platforms[j].fadeTimer < p.fadeTimer]_vars

\* A touched fading platform has counted down to dead while the platforms
\* ahead of it, fading ones among them, were never touched
C25_Witness ==
  /\ \E i \in 1..Len(game.world.platforms) :
       /\ game.world.platforms[i].dead
       /\ game.world.platforms[i].fadeTimer <= 0
       /\ game.world.platforms[i].fadeTimer > -FadeStep(MaxDeltaTicks)
  /\ \E i \in 1..Len(game.world.platforms) :
       game.world.platforms[i].type = "fading" /\ ~game.world.platforms[i].touched

\* C26: the gameplayStart and gameplayStop notifications that reach the
\* Poki SDK strictly alternate, beginning with gameplayStart: a fall sends
\* one gameplayStop before the prompt or ad and one gameplayStart after the
\* restart.
C26_NotificationsAlternate ==
  probe.kind = "notify" =>
    \A i \in 1..Len(probe.sent) :
      probe.sent[i] = (IF i % 2 = 1 THEN "gameplayStart" ELSE "gameplayStop")

Positions(seq, x) == {i \in 1..Len(seq) : seq[i] = x}

CallbackPairs ==
  {<<"muteAudio", "unmuteAudio">>, <<"disableInput", "enableInput">>, <<"onStart", "onFinish">>}

\* C27: with the SDK available, commercialBreak and rewardedBreak resolve
\* and never reject, every callback is invoked at most once, and whenever
\* muteAudio, disableInput or onStart was invoked its counterpart
\* unmuteAudio, enableInput or onFinish (where the caller supplied it) is
\* invoked exactly once, after it, also when the SDK call rejects;
\* rewardedBreak then resolves false.
C27_CallbacksPaired ==
  (/\ probe.kind = "poki" /\ probe.service.isAvailable
   /\ probe.method \in {"commercialBreak", "rewardedBreak"}) =>
     /\ probe.last.outcome = "returned"
     /\ \A c \in BreakCallbacks : Cardinality(Positions(probe.last.order, c)) <= 1
     /\ \A pair \in CallbackPairs :
          (Positions(probe.last.order, pair[1]) # {} /\ pair[2] \in probe.given) =>
             \E i \in Positions(probe.last.order, pair[1]) :
               \E j \in Positions(probe.last.order, pair[2]) : i < j
     /\ (probe.method = "rewardedBreak" /\ probe.settled = "error")
          => probe.last.result = "false"

\* A rewarded break with every callback given whose SDK call rejected
C27_Witness ==
  /\ probe.kind = "poki" /\ probe.service.isAvailable
  /\ probe.method = "rewardedBreak" /\ probe.settled = "error"
  /\ probe.given = BreakCallbacks
  /\ Len(probe.last.order) = 6

\* C28: onBuildComplete is invoked only after a build, a full run() or a
\* watch-mode rebuild, in which every executed task reported success.
C28_ReloadAfterSuccess ==
  (probe.kind = "pipeline" /\ probe.build.hook) => ~probe.build.failed

\* C29: after every change on a watched path a rebuild that starts after
\* that change eventually runs, also when the change arrives while a rebuild
\* of the same task is in progress.
C29_NoChangeLost ==
  /\ (probe.kind = "watch" /\ probe.w["Source"].stale) ~> ~probe.w["Source"].stale
  /\ (probe.kind = "watch" /\ probe.w["Copy"].stale) ~> ~probe.w["Copy"].stale

\* C30: when a fall flow ends, highScore is at least the platformsReached the
\* player had at the fall, also for falls with fewer than 10 platforms
\* reached; and highScore never decreases.
C30_BestScoreTracksFalls ==
  /\ [][FlowEnds => game'.highScore >= game.platformsReached]_vars
  /\ [][game'.highScore >= game.highScore]_vars

============================================================================
